---- MODULE Spec2Model ----
(***************************************************************************)
(* Covariance-parameter engines of probability-rs: the exact Cholesky      *)
(* engine (ExactEllipticalProcessParams), the structured KISS/LOVE engine  *)
(* (KissLoveEllipticalProcessParams) and the distribution-layer callers.   *)
(*                                                                         *)
(* f64 values are modelled as exact rationals <<num, den>> (den > 0, in    *)
(* lowest terms) with the three non-finite values NaN = <<0,0>>,           *)
(* +inf = <<1,0>>, -inf = <<-1,0>>.  "Within tolerance" of the source's    *)
(* floating point is equality here.  A finite value whose numerator or     *)
(* denominator leaves the integer range of the model is OutOfRange; the    *)
(* inputs and queries that produce it are not part of the model.           *)
(***************************************************************************)
EXTENDS Integers, Sequences, FiniteSets, TLC

\* eng: the engine object (NoEngine before construction and when it failed);
\* eng0: that object as construction returned it; call, ret: the last operation,
\* with its arguments and the outcome lib of the library calls it makes, and its
\* result; steps: the primitives the last constructor started;
\* phase: idle, built, failed (construction returned Err), aborted (a panic)
\* switch: the ClusterSwitch object (NoSwitch before construction)
\* switch0: the ClusterSwitch object before the operation in progress
\* carried: the labels some element of s has carried so far
\* dist: the InstantConditionalDistribution object (NoDist before construction)
\* given: the condition most recently given to with_condition of dist, if any
\* gibbs: the GibbsSampler, its distributions and the position of sample
\* ess: the locals theta, start and end of EllipticalSliceSampler::sample
VARIABLES eng, eng0, call, ret, steps, phase, switch, switch0, carried, dist, given, gibbs, ess

switchVars == <<switch, switch0, carried>>

mcmcVars == <<dist, given, gibbs, ess>>

vars == <<eng, eng0, call, ret, steps, phase, switchVars, mcmcVars>>

(***************************************************************************)
(* Bounds of the model.                                                    *)
(***************************************************************************)
\* longest observation vector y and input list X
MaxN == 3
\* largest feature dimension data_len() of an input
MaxD == 2
\* largest number of parts parts_len() of an input
MaxP == 1

\* the grid construction alone is also run on up to MaxGridN inputs of up to
\* MaxGridD features
MaxGridN == 24

MaxGridD == 3

(***************************************************************************)
(* f64 arithmetic.                                                         *)
(***************************************************************************)
Abs(i) == IF i < 0 THEN -i ELSE i

Sign(i) == IF i < 0 THEN -1 ELSE IF i = 0 THEN 0 ELSE 1

RECURSIVE Gcd(_, _)
Gcd(a, b) == IF b = 0 THEN a ELSE Gcd(b, a % b)

NaN == <<0, 0>>

PInf == <<1, 0>>

NInf == <<-1, 0>>

\* largest numerator and denominator of an operand
Range == 30000

OutOfRange == <<0, -1>>

InRange(x) == x # OutOfRange /\ Abs(x[1]) <= Range /\ x[2] <= Range

Norm(n, d) ==
    IF d = 0 THEN <<Sign(n), 0>>
    ELSE LET g == Gcd(Abs(n), Abs(d))
         IN  <<Sign(d) * (n \div g), Abs(d) \div g>>

Flt(i) == <<i, 1>>

IsNaN(x) == x = NaN

IsFinite(x) == x[2] > 0

FNeg(x) == IF x = OutOfRange THEN x ELSE <<-x[1], x[2]>>

FAdd(x, y) ==
    IF ~InRange(x) \/ ~InRange(y) THEN OutOfRange
    ELSE IF x[2] = 0 \/ y[2] = 0
    THEN IF IsNaN(x) \/ IsNaN(y) THEN NaN
         ELSE IF x[2] = 0 /\ y[2] = 0 THEN (IF x = y THEN x ELSE NaN)
         ELSE IF x[2] = 0 THEN x ELSE y
    ELSE LET g == Gcd(x[2], y[2])
         IN  Norm(x[1] * (y[2] \div g) + y[1] * (x[2] \div g), (x[2] \div g) * y[2])

FSub(x, y) == FAdd(x, FNeg(y))

FMul(x, y) ==
    IF ~InRange(x) \/ ~InRange(y) THEN OutOfRange
    ELSE IF x[2] = 0 \/ y[2] = 0 THEN Norm(x[1] * y[1], 0)
    ELSE LET g == Gcd(Abs(x[1]), y[2])
             h == Gcd(Abs(y[1]), x[2])
         IN  Norm((x[1] \div g) * (y[1] \div h), (x[2] \div h) * (y[2] \div g))

FInv(x) ==
    IF x = OutOfRange THEN x
    ELSE IF IsNaN(x) THEN NaN
    ELSE IF x[2] = 0 THEN Flt(0)
    ELSE IF x[1] = 0 THEN PInf
    ELSE <<Sign(x[1]) * x[2], Abs(x[1])>>

FDiv(x, y) == FMul(x, FInv(y))

\* x < y of partial_cmp: false whenever an operand is NaN
FLt(x, y) ==
    IF ~InRange(x) \/ ~InRange(y) \/ IsNaN(x) \/ IsNaN(y) THEN FALSE
    ELSE IF x[2] = 0 \/ y[2] = 0
         THEN (x = NInf /\ y # NInf) \/ (y = PInf /\ x # PInf)
    ELSE x[1] * y[2] < y[1] * x[2]

IsSquare(i) == i >= 0 /\ \E r \in 0..i : r * r = i

ISqrt(i) == CHOOSE r \in 0..i : r * r = i

\* f64::sqrt has an exact rational result only on squares of rationals
SqrtIsExact(x) ==
    InRange(x) /\ (~IsFinite(x) \/ x[1] < 0 \/ (IsSquare(x[1]) /\ IsSquare(x[2])))

\* f64::sqrt: the exact root where there is one, else the radical <<num, den, 2>>
FSqrt(x) ==
    IF ~InRange(x) THEN OutOfRange
    ELSE IF IsNaN(x) \/ x = NInf THEN NaN
    ELSE IF x = PInf THEN PInf
    ELSE IF x[1] < 0 THEN NaN
    ELSE IF IsSquare(x[1]) /\ IsSquare(x[2]) THEN <<ISqrt(x[1]), ISqrt(x[2])>>
    ELSE <<x[1], x[2], 2>>

(***************************************************************************)
(* Vectors (sequences of f64) and column-major matrices                    *)
(* [rows, cols, col], col[j][i] the entry of row i and column j.           *)
(***************************************************************************)
RECURSIVE FSum(_, _)
FSum(f, n) == IF n = 0 THEN Flt(0) ELSE FAdd(FSum(f, n - 1), f[n])

RECURSIVE FProd(_, _)
FProd(f, n) == IF n = 0 THEN Flt(1) ELSE FMul(FProd(f, n - 1), f[n])

\* a Vec: the entries as a stored sequence
Vec(f) == f \o <<>>

Dot(x, y) == FSum(Vec([i \in 1..Len(x) |-> FMul(x[i], y[i])]), Len(x))

VAdd(x, y) == Vec([i \in 1..Len(x) |-> FAdd(x[i], y[i])])

VSub(x, y) == Vec([i \in 1..Len(x) |-> FSub(x[i], y[i])])

VScale(c, x) == Vec([i \in 1..Len(x) |-> FMul(c, x[i])])

VZero(n) == Vec([i \in 1..n |-> Flt(0)])

At(m, i, j) == m.col[j][i]

ColMat(v) == [rows |-> Len(v), cols |-> 1, col |-> <<v>>]

RowMat(v) == [rows |-> 1, cols |-> Len(v), col |-> Vec([j \in 1..Len(v) |-> <<v[j]>>])]

\* Matrix::vec: the elements in column-major order
RECURSIVE Concat(_, _)
Concat(cols, n) == IF n = 0 THEN <<>> ELSE Concat(cols, n - 1) \o cols[n]

MatVec(m) == Concat(m.col, m.cols)

Transpose(m) ==
    [rows |-> m.cols, cols |-> m.rows,
     col |-> Vec([j \in 1..m.rows |-> Vec([i \in 1..m.cols |-> At(m, j, i)])])]

\* the product of two matrices whose inner dimensions agree
MatMul(a, b) ==
    [rows |-> a.rows, cols |-> b.cols,
     col |-> Vec([j \in 1..b.cols |-> Vec([i \in 1..a.rows |->
                FSum(Vec([k \in 1..a.cols |-> FMul(At(a, i, k), At(b, k, j))]), a.cols)])])]

MatAdd(a, b) ==
    [rows |-> a.rows, cols |-> a.cols,
     col |-> Vec([j \in 1..a.cols |-> Vec([i \in 1..a.rows |-> FAdd(At(a, i, j), At(b, i, j))])])]

\* f64 + Matrix: the scalar is added to every entry
ScalarPlusMat(c, m) ==
    [rows |-> m.rows, cols |-> m.cols,
     col |-> Vec([j \in 1..m.cols |-> Vec([i \in 1..m.rows |-> FAdd(c, At(m, i, j))])])]

\* f64 * Matrix
ScaleMat(c, m) ==
    [rows |-> m.rows, cols |-> m.cols,
     col |-> Vec([j \in 1..m.cols |-> Vec([i \in 1..m.rows |-> FMul(c, At(m, i, j))])])]

Identity(n) ==
    [rows |-> n, cols |-> n,
     col |-> Vec([j \in 1..n |-> Vec([i \in 1..n |-> IF i = j THEN Flt(1) ELSE Flt(0)])])]

\* c * DiagonalMatrix::identity(n)
ScaledIdentity(c, n) ==
    [rows |-> n, cols |-> n,
     col |-> Vec([j \in 1..n |-> Vec([i \in 1..n |-> IF i = j THEN c ELSE Flt(0)])])]

\* no entry of the vector, or of the matrix, is OutOfRange
VecInRange(v) == \A i \in 1..Len(v) : v[i] # OutOfRange

MatInRange(m) == \A j \in 1..m.cols : VecInRange(m.col[j])

(***************************************************************************)
(* Results: Ok(value), Err(error) returned to the caller, or a panic that  *)
(* ends the process.                                                       *)
(***************************************************************************)
Ok(v) == [tag |-> "Ok", val |-> v]

Err(e) == [tag |-> "Err", err |-> e]

Panic(e) == [tag |-> "Panic", err |-> e]

\* a library primitive a constructor starts, with its dimension and iteration cap
Step(op, dim, cap) == [op |-> op, dim |-> dim, cap |-> cap]

(***************************************************************************)
(* Dense Cholesky of opensrdk_linear_algebra, as the engines use it.       *)
(***************************************************************************)
\* the pivot of column j given the columns cs before it
PotrfPivot(S, cs, j) ==
    FSub(At(S, j, j), FSum(Vec([k \in 1..(j - 1) |-> FMul(cs[k][j], cs[k][j])]), j - 1))

PotrfBelow(S, cs, i, j) ==
    FSub(At(S, i, j), FSum(Vec([k \in 1..(j - 1) |-> FMul(cs[k][i], cs[k][j])]), j - 1))

\* the factor whose first columns are cs, the others zero
PotrfMatrix(n, cs) ==
    [rows |-> n, cols |-> n,
     col |-> Vec([j \in 1..n |-> Vec([i \in 1..n |-> IF j <= Len(cs) THEN cs[j][i] ELSE Flt(0)])])]

RECURSIVE PotrfFrom(_, _, _)
PotrfFrom(S, j, cs) ==
    IF j > S.rows THEN [status |-> "ok", l |-> PotrfMatrix(S.rows, cs)]
    ELSE LET piv == PotrfPivot(S, cs, j)
         IN  IF ~InRange(piv) THEN [status |-> "inexact", l |-> PotrfMatrix(S.rows, cs)]
             ELSE IF ~FLt(Flt(0), piv) \/ ~IsFinite(piv)
             THEN [status |-> "notpd", l |-> PotrfMatrix(S.rows, cs)]
             ELSE IF ~SqrtIsExact(piv)
             THEN [status |-> "inexact", l |-> PotrfMatrix(S.rows, cs)]
             ELSE LET d == FSqrt(piv)
                      c == Vec([i \in 1..S.rows |->
                              IF i < j THEN Flt(0)
                              ELSE IF i = j THEN d
                              ELSE FDiv(PotrfBelow(S, cs, i, j), d)])
                  IN  PotrfFrom(S, j + 1, Append(cs, c))

\* Matrix::potrf: the lower Cholesky factor, or the failure of a matrix that is
\* not positive definite ("inexact": the factor has an irrational entry)
Potrf(S) == PotrfFrom(S, 1, <<>>)

RECURSIVE ForwardSolve(_, _, _)
ForwardSolve(l, b, i) ==
    IF i = 0 THEN <<>>
    ELSE LET y == ForwardSolve(l, b, i - 1)
             s == FSum(Vec([k \in 1..(i - 1) |-> FMul(At(l, i, k), y[k])]), i - 1)
         IN  Append(y, FDiv(FSub(b[i], s), At(l, i, i)))

RECURSIVE BackwardSolve(_, _, _)
BackwardSolve(l, y, i) ==
    IF i > l.rows THEN <<>>
    ELSE LET x == BackwardSolve(l, y, i + 1)
             s == FSum(Vec([t \in 1..(l.rows - i) |-> FMul(At(l, i + t, i), x[t])]),
                       l.rows - i)
             xi == FDiv(FSub(y[i], s), At(l, i, i))
         IN  <<xi>> \o x

\* potrs that stops after the forward solve: L^{-1} B
PotrsForwardOnly(l, B, lib) ==
    IF B.rows # l.rows THEN Err("DimensionMismatch")
    ELSE IF lib = "fail" THEN Err("LinearAlgebra")
    ELSE Ok([rows |-> B.rows, cols |-> B.cols,
             col |-> Vec([j \in 1..B.cols |-> ForwardSolve(l, B.col[j], l.rows)])])

\* Matrix::potrs: (L L^T)^{-1} B by two triangular solves per column of B;
\* lib is the outcome of the LAPACK call
Potrs(l, B, lib) ==
    IF B.rows # l.rows THEN Err("DimensionMismatch")
    ELSE IF lib = "fail" THEN Err("LinearAlgebra")
    ELSE Ok([rows |-> B.rows, cols |-> B.cols,
             col |-> Vec([j \in 1..B.cols |->
                        BackwardSolve(l, ForwardSolve(l, B.col[j], l.rows), 1)])])

\* Matrix::trdet: the product of the diagonal
Trdet(l) == FProd(Vec([i \in 1..l.rows |-> At(l, i, i)]), l.rows)

(***************************************************************************)
(* Inputs.  An input x is [parts_len, data_len, at]: the shape it reports  *)
(* as a Convolutable and its position.  The kernel is the opaque external  *)
(* capability covariance(x1, x2, theta).                                   *)
(***************************************************************************)

Thetas == {<<1, lo, c>> : lo \in {0, 1}, c \in {0, 1}}

Sigmas == {0, 1}

LibOutcomes == {"ok", "fail"}

\* the observation vectors of length n: constant, or a step after the first
YLists(n) == {Vec([i \in 1..n |-> Flt(0)]), Vec([i \in 1..n |-> IF i = 1 THEN Flt(0) ELSE Flt(2)])}

Input(p, d, at) == [parts_len |-> p, data_len |-> d, at |-> at]

\* the list of nx inputs with p parts and d features each, on positions 1..nx
Inputs(nx, p, d) == Vec([i \in 1..nx |-> Input(p, d, i)])

Min(a, b) == IF a < b THEN a ELSE b

Max(a, b) == IF a < b THEN b ELSE a

\* Kernel::value(theta, x1, x2)
Covariance(theta, x1, x2) ==
    Flt(theta[2] * theta[2] * (Min(x1.at, x2.at) - 1)
        + (IF x1.at = x2.at THEN theta[1] * theta[1] - theta[3]
           ELSE theta[1] * theta[2]))

\* kernel_matrix(kernel, theta, x, x')
KernelMatrix(theta, x1, x2) ==
    [rows |-> Len(x1), cols |-> Len(x2),
     col |-> Vec([j \in 1..Len(x2) |-> Vec([i \in 1..Len(x1) |-> Covariance(theta, x1[i], x2[j])])])]

BaseParams(theta, x, sigma) == [kernel |-> "kernel", theta |-> theta, x |-> x, sigma |-> sigma]

\* ey(y): the arithmetic mean of y
Ey(y) == FDiv(FSum(y, Len(y)), Flt(Len(y)))

\* y_ey(y, ey): y with ey subtracted from every entry
YEy(y, ey) == Vec([i \in 1..Len(y) |-> FSub(y[i], ey)])

(***************************************************************************)
(* ExactEllipticalProcessParams.                                           *)
(***************************************************************************)
NoEngine == [kind |-> "none"]

\* mu filled with the first observation instead of the mean
ExactMuFirstObservation(base, y) == Vec([i \in 1..Len(base.x) |-> y[1]])

\* vec![ey; base.x.len()]
ExactMu(base, y) == Vec([i \in 1..Len(base.x) |-> Ey(y)])

\* kxx + base.sigma.powi(2) * DiagonalMatrix::identity(n)
ExactSigma(base, n) ==
    MatAdd(KernelMatrix(base.theta, base.x, base.x),
           ScaledIdentity(FMul(base.sigma, base.sigma), n))

\* the primitives ExactEllipticalProcessParams::new starts, in order
ExactSteps(n) ==
    <<Step("ey", n, 0), Step("kernel_matrix", n, 0), Step("potrf", n, 0), Step("potrs", n, 0)>>

\* a constructor's outcome: res the Result it returns, steps the primitives it
\* started, modelled whether the arithmetic of the model represents every value
Outcome(res, done, modelled) == [res |-> res, steps |-> done, modelled |-> modelled]

\* new, after the solve: the Mahalanobis distance and the object
ExactNewObject(base, y, lsigma, sigma_inv_y, mahalanobis_squared) ==
    Outcome(Ok([kind |-> "exact", base |-> base, mu |-> ExactMu(base, y),
                lsigma |-> lsigma, sigma_inv_y |-> sigma_inv_y,
                mahalanobis_squared |-> mahalanobis_squared]),
            ExactSteps(Len(y)),
            MatInRange(sigma_inv_y) /\ mahalanobis_squared # OutOfRange)

\* new, after the factorization: sol is lsigma.potrs(y_ey)
ExactNewSolve(base, y, lsigma, y_ey, sol) ==
    IF sol.tag = "Err" THEN Outcome(sol, ExactSteps(Len(y)), TRUE)
    ELSE ExactNewObject(base, y, lsigma, sol.val,
                        At(MatMul(Transpose(y_ey), sol.val), 1, 1))

\* new, after validation: f is sigma.potrf()
ExactNewFactor(base, y, lib, f) ==
    IF f.status # "ok"
    THEN Outcome(Err("LinearAlgebra"), SubSeq(ExactSteps(Len(y)), 1, 3), f.status # "inexact")
    ELSE ExactNewSolve(base, y, f.l, ColMat(YEy(y, Ey(y))),
                       Potrs(f.l, ColMat(YEy(y, Ey(y))), lib))

\* new validating y only after the mean and the kernel matrix were computed
ExactNewValidatedLate(base, y, lib) ==
    IF Len(y) = 0
    THEN Outcome(Err("Empty"), <<Step("ey", 0, 0), Step("kernel_matrix", 0, 0)>>, TRUE)
    ELSE IF Len(y) # Len(base.x)
    THEN Outcome(Err("DimensionMismatch"),
                 <<Step("ey", Len(y), 0), Step("kernel_matrix", Len(y), 0)>>, TRUE)
    ELSE ExactNewFactor(base, y, lib, Potrf(ExactSigma(base, Len(y))))

\* new reporting a length mismatch as Empty
ExactNewLengthAsEmpty(base, y, lib) ==
    IF Len(y) = 0 \/ Len(y) # Len(base.x) THEN Outcome(Err("Empty"), <<>>, TRUE)
    ELSE ExactNewFactor(base, y, lib, Potrf(ExactSigma(base, Len(y))))

\* ExactEllipticalProcessParams::new
ExactNew(base, y, lib) ==
    IF Len(y) = 0 THEN Outcome(Err("Empty"), <<>>, TRUE)
    ELSE IF Len(y) # Len(base.x) THEN Outcome(Err("DimensionMismatch"), <<>>, TRUE)
    ELSE ExactNewFactor(base, y, lib, Potrf(ExactSigma(base, Len(y))))

\* EllipticalParams::mu
ExactMuOf(e) == e.mu

\* EllipticalParams::sigma_inv_mul
ExactSigmaInvMul(e, v, lib) == Potrs(e.lsigma, v, lib)

\* EllipticalParams::sigma_det_sqrt
ExactSigmaDetSqrt(e) == Trdet(e.lsigma)

\* EllipticalParams::lsigma_cols
ExactLsigmaCols(e) == e.lsigma.cols

\* sample with the factor transposed: mu[0] + lsigma^T * z
ExactSampleTransposed(e, z) ==
    IF Len(z) # e.lsigma.cols THEN Panic("Dimension mismatch.")
    ELSE Ok(MatVec(ScalarPlusMat(e.mu[1], MatMul(Transpose(e.lsigma), ColMat(z)))))

\* EllipticalParams::sample: mu[0] + lsigma * z
ExactSample(e, z) ==
    IF Len(z) # e.lsigma.cols THEN Panic("Dimension mismatch.")
    ELSE Ok(MatVec(ScalarPlusMat(e.mu[1], MatMul(e.lsigma, ColMat(z)))))

\* EllipticalProcessParams::mahalanobis_squared
ExactMahalanobisSquared(e) == e.mahalanobis_squared

(***************************************************************************)
(* Libraries of the structured engine: KroneckerMatrices, the conjugate    *)
(* gradient posv_cgm, the stable sort of a short slice.                    *)
(***************************************************************************)
RECURSIVE IntPow(_, _)
IntPow(b, e) == IF e = 0 THEN 1 ELSE b * IntPow(b, e - 1)

RECURSIVE KronRows(_, _)
KronRows(ks, t) == IF t = 0 THEN 1 ELSE KronRows(ks, t - 1) * ks[t].rows

RECURSIVE KronCols(_, _)
KronCols(ks, t) == IF t = 0 THEN 1 ELSE KronCols(ks, t - 1) * ks[t].cols

\* entry (I, J), from 0, of the Kronecker product of the first t factors
RECURSIVE KronAt(_, _, _, _)
KronAt(ks, t, I, J) ==
    IF t = 0 THEN Flt(1)
    ELSE FMul(KronAt(ks, t - 1, I \div ks[t].rows, J \div ks[t].cols),
              At(ks[t], (I % ks[t].rows) + 1, (J % ks[t].cols) + 1))

\* KroneckerMatrices::prod
KronProd(ks) ==
    [rows |-> KronRows(ks, Len(ks)), cols |-> KronCols(ks, Len(ks)),
     col |-> Vec([j \in 1..KronCols(ks, Len(ks)) |->
                Vec([i \in 1..KronRows(ks, Len(ks)) |-> KronAt(ks, Len(ks), i - 1, j - 1)])])]

\* Matrix * vector of matching length
MatVecMul(a, v) == MatMul(a, ColMat(v)).col[1]

\* KroneckerMatrices::vec_mul
KronVecMul(ks, v) ==
    IF Len(v) # KronCols(ks, Len(ks)) THEN Err("DimensionMismatch")
    ELSE Ok(MatVecMul(KronProd(ks), v))

RECURSIVE CgIter(_, _, _, _, _)

\* the next search direction p + beta * r2, beta = r2.r2 / r.r
CgDirection(A, x2, r2, p, k, rr) ==
    CgIter(A, x2, r2, VAdd(r2, VScale(FDiv(Dot(r2, r2), rr), p)), k - 1)

\* the step of length alpha = r.r / p.Ap along p
CgUpdate(A, x, r, p, k, rr, ap, alpha) ==
    IF alpha = OutOfRange THEN Vec([i \in 1..Len(x) |-> OutOfRange])
    ELSE IF ~IsFinite(alpha) THEN Vec([i \in 1..Len(x) |-> NaN])
    ELSE CgDirection(A, VAdd(x, VScale(alpha, p)), VSub(r, VScale(alpha, ap)), p, k, rr)

CgStep(A, x, r, p, k, rr, ap) == CgUpdate(A, x, r, p, k, rr, ap, FDiv(rr, Dot(p, ap)))

CgResidual(A, x, r, p, k, rr) ==
    IF rr = Flt(0) THEN x ELSE CgStep(A, x, r, p, k, rr, MatVecMul(A, p))

\* the iterate x with residual r and direction p, k steps left
CgIter(A, x, r, p, k) == IF k = 0 THEN x ELSE CgResidual(A, x, r, p, k, Dot(r, r))

\* Matrix::posv_cgm(a_mul, b, iterations), A the matrix of the closure a_mul:
\* conjugate gradient from x = 0, at most iterations steps
PosvCgm(A, b, iterations) == CgIter(A, VZero(Len(b)), b, b, iterations)

\* the comparator of det_kxx: partial_cmp, and for an unordered pair Less when
\* the left operand is not finite, else Greater
LambdaLess(a, b) ==
    IF IsNaN(a) \/ IsNaN(b) THEN ~IsFinite(a) ELSE FLt(a, b)

\* insert v[i] into the sorted prefix v[1..i-1], shifting it left while it is less
RECURSIVE InsertTail(_, _)
InsertTail(v, i) ==
    IF i > 1 /\ LambdaLess(v[i], v[i - 1])
    THEN InsertTail([v EXCEPT ![i - 1] = v[i], ![i] = v[i - 1]], i - 1)
    ELSE v

RECURSIVE InsertionSort(_, _)
InsertionSort(v, i) == IF i > Len(v) THEN v ELSE InsertionSort(InsertTail(v, i), i + 1)

\* slice::sort_by on a short slice: insertion sort
SortBy(v) == InsertionSort(v, 2)

(***************************************************************************)
(* Grid (kiss_love/grid.rs): the inducing grid and its interpolation       *)
(* weights.                                                                *)
(***************************************************************************)
\* Grid::from(x, points): points[a] inducing coordinates on axis a
GridFrom(x, points) == [points |-> points]

RECURSIVE GridLen(_, _)
GridLen(u, t) == IF t = 0 THEN 1 ELSE GridLen(u, t - 1) * u.points[t]

\* the weight of input x, part k, on grid point r of m: all of it on the grid
\* point of x for the first part, half on it and half on the next for the others
Weight(m, x, k, r) ==
    LET g == Min(x.at, m)
        g2 == (g % m) + 1
    IN  IF k = 1 \/ g2 = g THEN (IF r = g THEN Flt(1) ELSE Flt(0))
        ELSE IF r = g \/ r = g2 THEN <<1, 2>> ELSE Flt(0)

\* Grid::interpolation_weight(x): one m x n matrix per part, column i the
\* coefficients of input i, summing to 1
InterpolationWeight(u, x) ==
    LET m == GridLen(u, Len(u.points))
    IN  Vec([k \in 1..x[1].parts_len |->
            [rows |-> m, cols |-> Len(x),
             col |-> Vec([i \in 1..Len(x) |-> Vec([r \in 1..m |-> Weight(m, x[i], k, r)])])]])

\* Grid::kuu(kernel, theta): one dense covariance factor per axis
GridKuu(u, theta) ==
    Vec([a \in 1..Len(u.points) |->
        LET g == Vec([i \in 1..u.points[a] |-> Input(1, 1, i)]) IN KernelMatrix(theta, g, g)])

(***************************************************************************)
(* KissLoveEllipticalProcessParams.                                        *)
(***************************************************************************)
K == 100

SecondRank == 100

\* points per axis with n divided by 2 instead of 2^data_len
PointsHalved(n, data_len) == Vec([a \in 1..data_len |-> Max(n \div 2, 2)])

\* points per axis with the quotient rounded up instead of down
PointsRoundedUp(n, data_len) ==
    Vec([a \in 1..data_len |->
           Max((n + IntPow(2, data_len) - 1) \div IntPow(2, data_len), 2)])

\* vec![(n / 2usize.pow(data_len as u32)).max(2); data_len]
Points(n, data_len) == Vec([a \in 1..data_len |-> Max(n \div IntPow(2, data_len), 2)])

\* KissLoveEllipticalProcessParams::wx_u
WxU(x) ==
    IF Len(x) = 0 THEN Panic("index out of bounds: the len is 0 but the index is 0")
    ELSE LET n == Len(x)
             parts_len == x[1].parts_len
             data_len == x[1].data_len
         IN  IF parts_len = 0 \/ data_len = 0 THEN Err("Empty")
             ELSE LET u == GridFrom(x, Points(n, data_len))
                  IN  Ok([wx |-> InterpolationWeight(u, x), u |-> u])

\* one part's term of wxt_kuu_wx_mul: wx^T * kuu.vec_mul(wx * v)
WxtKuuWxPart(v, wxpi, kuu) ==
    MatVecMul(Transpose(wxpi), KronVecMul(kuu, MatVecMul(wxpi, v)).val)

RECURSIVE WxtKuuWxFold(_, _, _, _)
WxtKuuWxFold(v, wx, kuu, t) ==
    IF t = 0 THEN VZero(Len(v))
    ELSE VAdd(WxtKuuWxFold(v, wx, kuu, t - 1), WxtKuuWxPart(v, wx[t], kuu))

\* KissLoveEllipticalProcessParams::wxt_kuu_wx_mul: the operator A applied to v
WxtKuuWxMul(v, wx, kuu) == WxtKuuWxFold(v, wx, kuu, Len(wx))

\* the matrix of the closure |v| wxt_kuu_wx_mul(v, wx, kuu) on vectors of length n
OperatorMatrix(wx, kuu, n) ==
    [rows |-> n, cols |-> n,
     col |-> Vec([j \in 1..n |->
                WxtKuuWxMul(Vec([i \in 1..n |-> IF i = j THEN Flt(1) ELSE Flt(0)]), wx, kuu)])]

\* the eigenvalues cigv() reports for the embedded circulant of a factor of
\* dimension dim, in the order it reports them
EigenKinds == {"asc", "desc", "nan", "pinf", "ninf"}

CircEigen(dim, eig) ==
    Vec([i \in 1..dim |->
        IF eig = "nan" /\ i = 1 THEN NaN
        ELSE IF eig = "ninf" /\ i = 1 THEN NInf
        ELSE IF eig = "pinf" /\ i = dim THEN PInf
        ELSE IF eig = "desc" THEN Flt(dim + 1 - i)
        ELSE Flt(i)])

\* KissLoveEllipticalProcessParams::det_kxx
DetKxx(kuu, wx, eig) ==
    LET m == wx[1].rows
        n == wx[1].cols
        lambda == MatVec(KronProd(Vec([a \in 1..Len(kuu) |-> ColMat(CircEigen(kuu[a].rows, eig))])))
        sorted == SortBy(lambda)
    IN  IF ~IsFinite(sorted[1]) THEN Err("NaNContamination")
        ELSE IF m < n THEN Panic("attempt to subtract with overflow")
        ELSE LET kept == SubSeq(sorted, m - n + 1, Len(sorted))
             IN  Ok(FProd(Vec([i \in 1..Len(kept) |-> FMul(Norm(n, m), kept[i])]), Len(kept)))

\* what the Lanczos section (sytrd_k, pttrf, the residual operator of each part)
\* can end in: the residual operator multiplies the m x k matrix r by a vector of
\* length m, shapes that disagree unless k = m
LanczosOutcomes(n, m) == IF Min(n, K) = m THEN {"ok", "err"} ELSE {"ok", "err", "panic"}

KissStepsHead(n) ==
    <<Step("ey", n, 0), Step("grid", n, 0), Step("interpolation_weight", n, 0),
      Step("kuu", n, 0), Step("potrf", n, 0)>>

RECURSIVE KissStepsParts(_, _)
KissStepsParts(m, p) ==
    IF p = 0 THEN <<>>
    ELSE KissStepsParts(m, p - 1) \o <<Step("sytrd_k", m, SecondRank), Step("pttrf", m, 0)>>

\* the first tridiagonalization given rank K instead of min(n, K)
KissStepsSolveRankK(n) ==
    <<Step("posv_cgm", n, K), Step("sytrd_k", n, K), Step("pttrf", n, 0)>>

KissStepsSolve(n) ==
    <<Step("posv_cgm", n, K), Step("sytrd_k", n, Min(n, K)), Step("pttrf", n, 0)>>

\* every primitive new starts before det_kxx, for n inputs, grid size m, p parts
KissStepsLanczos(n, m, p) == KissStepsHead(n) \o KissStepsSolve(n) \o KissStepsParts(m, p)

\* new, after det_kxx: the object
KissNewObject(base, y, a, wx, u, kuu, lkuu, inv, det, modelled) ==
    Outcome(IF det.tag # "Ok" THEN det
            ELSE Ok([kind |-> "kiss", base |-> base,
                     mu |-> Vec([i \in 1..Len(base.x) |-> Ey(y)]),
                     u |-> u, a |-> a,
                     s |-> Vec([pi \in 1..Len(wx) |->
                                  [rows |-> KronRows(kuu, Len(kuu)), cols |-> SecondRank]]),
                     wx |-> wx, kuu |-> kuu, lkuu |-> lkuu,
                     kxx_det_sqrt |-> FSqrt(det.val),
                     mahalanobis_squared |-> Dot(YEy(y, Ey(y)), inv)]),
            Append(KissStepsLanczos(Len(y), KronRows(kuu, Len(kuu)), Len(wx)),
                   Step("det_kxx", KronRows(kuu, Len(kuu)), 0)),
            modelled)

\* new, the Lanczos section (sytrd_k, pttrf, the residual operator of each part);
\* ext is how it ends
KissNewLanczos(base, y, ext, eig, wx, u, kuu, lkuu, inv, a, modelled) ==
    IF ext = "err"
    THEN Outcome(Err("LinearAlgebra"),
                 KissStepsLanczos(Len(y), KronRows(kuu, Len(kuu)), Len(wx)), modelled)
    ELSE IF ext = "panic"
    THEN Outcome(Panic("Dimension mismatch."),
                 KissStepsLanczos(Len(y), KronRows(kuu, Len(kuu)), Len(wx)), modelled)
    ELSE KissNewObject(base, y, a, wx, u, kuu, lkuu, inv, DetKxx(kuu, wx, eig), modelled)

\* new, after the conjugate-gradient solve inv = wxt_kuu_wx_inv_y
KissNewA(base, y, ext, eig, wx, u, kuu, lkuu, inv, a) ==
    KissNewLanczos(base, y, ext, eig, wx, u, kuu, lkuu, inv, a,
                   /\ VecInRange(inv)
                   /\ \A pi \in 1..Len(a) : MatInRange(a[pi])
                   /\ Dot(YEy(y, Ey(y)), inv) # OutOfRange)

KissNewSolve(base, y, ext, eig, wx, u, kuu, lkuu, inv) ==
    KissNewA(base, y, ext, eig, wx, u, kuu, lkuu, inv,
             Vec([pi \in 1..Len(wx) |->
                    ColMat(KronVecMul(kuu, MatVecMul(wx[pi], inv)).val)]))

\* new, after kuu: fs the potrf() of each factor
KissNewFactor(base, y, ext, eig, wx, u, kuu, fs) ==
    IF \E a \in 1..Len(kuu) : fs[a].status # "ok"
    THEN Outcome(Err("LinearAlgebra"), KissStepsHead(Len(y)),
                 \A a \in 1..Len(kuu) : fs[a].status # "inexact")
    ELSE KissNewSolve(base, y, ext, eig, wx, u, kuu, Vec([a \in 1..Len(kuu) |-> fs[a].l]),
                      PosvCgm(OperatorMatrix(wx, kuu, Len(y)), YEy(y, Ey(y)), K))

KissNewKuu(base, y, ext, eig, wx, u, kuu) ==
    KissNewFactor(base, y, ext, eig, wx, u, kuu, Vec([a \in 1..Len(kuu) |-> Potrf(kuu[a])]))

\* new with the parts and features of x[0] checked only after the grid is built
KissNewGridCheckedLate(base, y, ext, eig, g) ==
    IF g.tag # "Ok"
    THEN Outcome(g, <<Step("ey", Len(y), 0), Step("grid", Len(y), 0),
                      Step("interpolation_weight", Len(y), 0)>>, TRUE)
    ELSE KissNewKuu(base, y, ext, eig, g.val.wx, g.val.u, GridKuu(g.val.u, base.theta))

\* new, after validation: g is wx_u(base.x)
KissNewGrid(base, y, ext, eig, g) ==
    IF g.tag # "Ok" THEN Outcome(g, <<Step("ey", Len(y), 0)>>, TRUE)
    ELSE KissNewKuu(base, y, ext, eig, g.val.wx, g.val.u, GridKuu(g.val.u, base.theta))

\* new with the length check only
KissNewLengthOnly(base, y, ext, eig) ==
    IF Len(y) # Len(base.x) THEN Outcome(Err("DimensionMismatch"), <<>>, TRUE)
    ELSE KissNewGrid(base, y, ext, eig, WxU(base.x))

\* new with the length check before the emptiness check
KissNewLengthFirst(base, y, ext, eig) ==
    IF Len(y) # Len(base.x) THEN Outcome(Err("DimensionMismatch"), <<>>, TRUE)
    ELSE IF Len(y) = 0 THEN Outcome(Err("Empty"), <<>>, TRUE)
    ELSE KissNewGrid(base, y, ext, eig, WxU(base.x))

\* KissLoveEllipticalProcessParams::new; ext is how the Lanczos section ends,
\* eig what cigv() reports
KissNew(base, y, ext, eig) ==
    IF Len(y) = 0 THEN Outcome(Err("Empty"), <<>>, TRUE)
    ELSE IF Len(y) # Len(base.x) THEN Outcome(Err("DimensionMismatch"), <<>>, TRUE)
    ELSE KissNewGrid(base, y, ext, eig, WxU(base.x))

\* the grid size m that construction chooses for n inputs of data_len features
GridSize(n, data_len) == IntPow(Max(n \div IntPow(2, data_len), 2), data_len)

\* sigma_inv_mul with an iteration cap of 1 instead of K
KissSigmaInvMulOneStep(e, v, lib) ==
    IF v.rows # Len(e.mu)
    THEN (IF lib = "fail" THEN Err("DimensionMismatch") ELSE Panic("Dimension mismatch."))
    ELSE Ok([rows |-> v.rows, cols |-> v.cols,
             col |-> Vec([i \in 1..v.cols |->
                        PosvCgm(OperatorMatrix(e.wx, e.kuu, Len(e.mu)), v.col[i], 1)])])

\* EllipticalParams::sigma_inv_mul: one posv_cgm per column of v
KissSigmaInvMul(e, v, lib) ==
    IF v.rows # Len(e.mu)
    THEN (IF lib = "fail" THEN Err("DimensionMismatch") ELSE Panic("Dimension mismatch."))
    ELSE Ok([rows |-> v.rows, cols |-> v.cols,
             col |-> Vec([i \in 1..v.cols |->
                        PosvCgm(OperatorMatrix(e.wx, e.kuu, Len(e.mu)), v.col[i], K)])])

\* the orders in which the workers of a parallel iterator over k items can finish
Schedules(k) == {s \in [1..k -> 1..k] : \A i \in 1..k : \A j \in 1..k : s[i] = s[j] => i = j}

\* one posv_cgm of sigma_inv_mul, on column b; failed is whether the library
\* reports an error for it
KissColumnSolve(e, b, failed) ==
    IF failed THEN Err("LinearAlgebra")
    ELSE Ok(PosvCgm(OperatorMatrix(e.wx, e.kuu, Len(e.mu)), b, K))

\* a collect that appends the results in the order the workers finish
ParCollectInCompletionOrder(results, sched) ==
    Vec([k \in 1..Len(results) |-> results[sched[k]]])

\* the workers finish in the order sched, each writing its result into its own slot
RECURSIVE ParCollectFrom(_, _, _, _)
ParCollectFrom(results, sched, k, slots) ==
    IF k > Len(results) THEN slots
    ELSE ParCollectFrom(results, sched, k + 1,
                        [slots EXCEPT ![sched[k]] = results[sched[k]]])

\* into_par_iter().map(..).collect(): an indexed collect, slot i holds item i
ParCollect(results, sched) ==
    ParCollectFrom(results, sched, 1, Vec([i \in 1..Len(results) |-> Err("pending")]))

\* collect::<Result<Vec<_>, _>>()? and Matrix::from(v.rows(), concat)
KissSigmaInvMulCollected(v, rs) ==
    IF \E i \in 1..Len(rs) : rs[i].tag = "Err" THEN Err("LinearAlgebra")
    ELSE Ok([rows |-> v.rows, cols |-> v.cols,
             col |-> Vec([i \in 1..v.cols |-> rs[i].val])])

\* EllipticalParams::sigma_inv_mul with its workers finishing in the order sched
\* and the solve of column failing (0: none) reporting an error
KissSigmaInvMulPar(e, v, lib, sched, failing) ==
    IF v.rows # Len(e.mu) THEN KissSigmaInvMul(e, v, lib)
    ELSE KissSigmaInvMulCollected(
             v, ParCollect(Vec([i \in 1..v.cols |-> KissColumnSolve(e, v.col[i], i = failing)]),
                           sched))

\* EllipticalParams::sigma_det_sqrt
KissSigmaDetSqrt(e) == e.kxx_det_sqrt

\* EllipticalParams::lsigma_cols
KissLsigmaCols(e) == Len(e.mu)

RECURSIVE KissSampleFold(_, _, _, _)
KissSampleFold(wx, lkuu_z, n, t) ==
    IF t = 0 THEN [rows |-> n, cols |-> 1, col |-> <<VZero(n)>>]
    ELSE MatAdd(KissSampleFold(wx, lkuu_z, n, t - 1), MatMul(Transpose(wx[t]), lkuu_z))

\* EllipticalParams::sample
KissSample(e, z) ==
    LET n == Len(e.mu)
        r == KronVecMul(e.lkuu, z)
    IN  IF r.tag = "Err" THEN r
        ELSE Ok(MatVec(ScalarPlusMat(e.mu[1],
                                     KissSampleFold(e.wx, ColMat(r.val), n, Len(e.wx)))))

(***************************************************************************)
(* The EllipticalParams contract, dispatched on the engine.                *)
(***************************************************************************)
Mu(e) == e.mu

SigmaInvMul(e, v, lib) ==
    IF e.kind = "exact" THEN ExactSigmaInvMul(e, v, lib) ELSE KissSigmaInvMul(e, v, lib)

SigmaDetSqrt(e) == IF e.kind = "exact" THEN ExactSigmaDetSqrt(e) ELSE KissSigmaDetSqrt(e)

LsigmaCols(e) == IF e.kind = "exact" THEN ExactLsigmaCols(e) ELSE KissLsigmaCols(e)

Sample(e, z) == IF e.kind = "exact" THEN ExactSample(e, z) ELSE KissSample(e, z)

MahalanobisSquared(e) == e.mahalanobis_squared

\* EllipticalParams::x_mu: x - mu, for x as long as mu
XMu(e, x) ==
    IF Len(x) # Len(Mu(e)) THEN Err("DimensionMismatch") ELSE Ok(VSub(x, Mu(e)))

(***************************************************************************)
(* The distribution layer.                                                 *)
(***************************************************************************)
Nus == {0, 3}

\* p_kernel, after the solve r = sigma_inv_mul(x_mu)
PKernelQuad(x, x_mu, r) ==
    IF r.tag # "Ok" THEN r
    ELSE Ok([quad |-> At(MatMul(Transpose(x_mu), r.val), 1, 1), n |-> Len(x)])

\* MultivariateNormal::p_kernel: exp(-1/2 * quad / exp(n)), kept as [quad, n]
PKernel(e, x, lib) ==
    IF XMu(e, x).tag = "Err" THEN XMu(e, x)
    ELSE PKernelQuad(x, ColMat(XMu(e, x).val), SigmaInvMul(e, ColMat(XMu(e, x).val), lib))

\* Result::unwrap
Unwrap(r) ==
    IF r.tag = "Err" THEN Panic("called Result::unwrap() on an Err value") ELSE r

\* ln_diff_condition, the result [f_mu.vec(), f_lsigma.vec()].concat()
LnDiffResult(x_mu_mat, f_mu, lsigma_inv_t, b) ==
    IF b.tag # "Ok" THEN b
    ELSE Ok(MatVec(f_mu.val)
            \o MatVec(ScaleMat(<<1, 2>>, MatAdd(MatMul(Transpose(x_mu_mat), b.val),
                                                 ScaleMat(Flt(-1), lsigma_inv_t.val)))))

\* ln_diff_condition, lsigma_inv_mul_lsigma_inv_mul_x_mu
LnDiffInvMulInvMul(e, lib, x_mu_mat, f_mu, lsigma_inv_t, a) ==
    IF a.tag # "Ok" THEN a
    ELSE LnDiffResult(x_mu_mat, f_mu, lsigma_inv_t, Unwrap(SigmaInvMul(e, a.val, lib)))

\* ln_diff_condition, lsigma_inv_mul_x_mu
LnDiffInvMul(e, lib, x_mu_mat, f_mu, lsigma_inv_t) ==
    IF lsigma_inv_t.tag # "Ok" THEN lsigma_inv_t
    ELSE LnDiffInvMulInvMul(e, lib, x_mu_mat, f_mu, lsigma_inv_t,
                            Unwrap(SigmaInvMul(e, x_mu_mat, lib)))

\* ln_diff_condition, lsigma_inv_t
LnDiffLsigmaInvT(e, lib, x_mu_mat, f_mu) ==
    IF f_mu.tag # "Ok" THEN f_mu
    ELSE LnDiffInvMul(e, lib, x_mu_mat, f_mu,
                      Unwrap(SigmaInvMul(e, Identity(LsigmaCols(e)), lib)))

\* ln_diff_condition, f_mu
LnDiffFMu(e, lib, x_mu_mat) ==
    LnDiffLsigmaInvT(e, lib, x_mu_mat, Unwrap(SigmaInvMul(e, x_mu_mat, lib)))

\* MultivariateNormal::ln_diff_condition
LnDiffCondition(e, x, lib) ==
    IF XMu(e, x).tag = "Err" THEN XMu(e, x)
    ELSE LnDiffFMu(e, lib, RowMat(VSub(x, XMu(e, x).val)))

\* fk, after the solve r = sigma_inv_mul(x_mu)
FkQuad(nu, x_mu, r) ==
    IF r.tag # "Ok" THEN r
    ELSE Ok([quad |-> At(MatMul(Transpose(x_mu), r.val), 1, 1), nu |-> nu, n |-> x_mu.rows])

\* MultivariateStudentT::fk: (1 + quad / nu)^(-(nu + n) / 2), kept as [quad, nu, n]
Fk(e, nu, x, lib) ==
    IF XMu(e, x).tag = "Err" THEN XMu(e, x)
    ELSE FkQuad(nu, ColMat(XMu(e, x).val), SigmaInvMul(e, ColMat(XMu(e, x).val), lib))

\* MultivariateStudentT::sample with the variates z drawn by rng
StudentTSample(e, nu, z) ==
    IF nu <= 0 THEN Err("Others") ELSE Sample(e, z)

(***************************************************************************)
(* ClusterSwitch: the cluster labels s (a Vec<u32>, indices from 0), their  *)
(* inverse s_inv, the cluster parameters theta and the largest label max_k. *)
(* A u32 is written as the integer with the same 32-bit two's-complement    *)
(* pattern, so u32::MAX is -1 and u32::MAX + 1 wraps to 0.                  *)
(***************************************************************************)
MaxItems == 2

MaxLabel == 2

\* longest condition vector given to with_condition
MaxCond == 2

\* most distributions of a GibbsSampler, and longest initial vector
MaxDist == 3

\* most sweeps with_iter is given
MaxIter == 2

\* angles in a full turn
AngleSteps == 16

U32Max == 0 - 1

\* a < b on u32
ULt(a, b) == IF (a < 0) = (b < 0) THEN a < b ELSE b < 0

Labels == (0..MaxLabel) \cup {U32Max}

ClusterParams == {"t1", "t2"}

NoSwitch == [kind |-> "none"]

\* HashMap::remove(k)
MapRemove(m, k) == [x \in (DOMAIN m) \ {k} |-> m[x]]

\* HashMap::insert(k, v)
MapInsert(m, k, v) == [x \in (DOMAIN m) \cup {k} |-> IF x = k THEN v ELSE m[x]]

\* s_inv.entry(k).or_insert(HashSet::new())
EntryOrEmpty(s_inv, k) == IF k \in DOMAIN s_inv THEN s_inv[k] ELSE {}

\* s_inv.entry(k).or_insert(HashSet::new()).remove(&i)
SInvRemove(s_inv, k, i) == MapInsert(s_inv, k, EntryOrEmpty(s_inv, k) \ {i})

\* s_inv.entry(k).or_insert(HashSet::new()).insert(i)
SInvInsert(s_inv, k, i) == MapInsert(s_inv, k, EntryOrEmpty(s_inv, k) \cup {i})

Switch(s, s_inv, theta, max_k) == [s |-> s, s_inv |-> s_inv, theta |-> theta, max_k |-> max_k]

\* the loop of ClusterSwitch::new over s from element j
RECURSIVE ClusterSwitchNewFrom(_, _, _, _, _)
ClusterSwitchNewFrom(s, theta, j, s_inv, max_k) ==
    IF j > Len(s) THEN Ok(Switch(s, s_inv, theta, max_k))
    ELSE IF s[j] = 0 THEN Err("SMustBePositive")
    ELSE ClusterSwitchNewFrom(s, theta, j + 1, SInvInsert(s_inv, s[j], j - 1),
                              IF ULt(max_k, s[j]) THEN s[j] ELSE max_k)

\* ClusterSwitch::new with the first element of s left out of the loop
ClusterSwitchNewSkipFirst(s, theta) == ClusterSwitchNewFrom(s, theta, 2, <<>>, 0)

\* ClusterSwitch::new
ClusterSwitchNew(s, theta) == ClusterSwitchNewFrom(s, theta, 1, <<>>, 0)

\* set_s leaving the emptied cluster in s_inv
SetSLeaveKeepsEmpty(c, i, inv) == Switch(c.s, inv, c.theta, c.max_k)

\* set_s: element i leaves its cluster, which is dropped with its parameter
\* when it is left empty
SetSLeave(c, i, inv) ==
    IF inv[c.s[i + 1]] = {}
    THEN Switch(c.s, MapRemove(inv, c.s[i + 1]), MapRemove(c.theta, c.s[i + 1]), c.max_k)
    ELSE Switch(c.s, inv, c.theta, c.max_k)

\* set_s: element i joins cluster k and max_k becomes max_k2
SetSJoin(c, i, k, max_k2) ==
    [res |-> Ok(k),
     obj |-> Switch([c.s EXCEPT ![i + 1] = k], SInvInsert(c.s_inv, k, i), c.theta, max_k2)]

\* set_s after element i left its cluster; checks is whether the build traps
\* integer overflow (it wraps otherwise)
SetSAssign(c, i, si, checks) ==
    IF si = 0
    THEN (IF c.max_k = U32Max /\ checks
          THEN [res |-> Panic("attempt to add with overflow"), obj |-> c]
          ELSE SetSJoin(c, i, c.max_k + 1, c.max_k + 1))
    ELSE SetSJoin(c, i, si, IF ULt(c.max_k, si) THEN si ELSE c.max_k)

\* ClusterSwitch::set_s
SetS(c, i, si, checks) ==
    IF i >= Len(c.s) THEN [res |-> Panic("index out of bounds"), obj |-> c]
    ELSE SetSAssign(SetSLeave(c, i, SInvRemove(c.s_inv, c.s[i + 1], i)), i, si, checks)

\* set_s_with_theta after set_s returned r
SetSWithThetaInsert(r, theta) ==
    IF r.res.tag = "Panic" THEN r
    ELSE [res |-> r.res,
          obj |-> Switch(r.obj.s, r.obj.s_inv, MapInsert(r.obj.theta, r.res.val, theta),
                         r.obj.max_k)]

\* ClusterSwitch::set_s_with_theta
SetSWithTheta(c, i, si, theta, checks) == SetSWithThetaInsert(SetS(c, i, si, checks), theta)

\* ClusterSwitch::n
ClusterN(c, k) == IF k \in DOMAIN c.s_inv THEN Cardinality(c.s_inv[k]) ELSE 0

\* ClusterSwitch::clusters_len
ClustersLen(c) == Cardinality(DOMAIN c.s_inv)

(***************************************************************************)
(* InstantConditionalDistribution: the closures p and sample and the        *)
(* condition, None until with_condition is called.  A closure is named by   *)
(* what it computes: "apply" returns its arguments as they were passed,     *)
(* "draw" returns what the draw from the generator gave, a value or an      *)
(* error.                                                                   *)
(***************************************************************************)
None == [tag |-> "None"]

Some(v) == [tag |-> "Some", val |-> v]

NoDist == [kind |-> "none"]

Closures == {"apply", "draw"}

\* (self.p)(x, condition)
ApplyP(f, x, condition) ==
    IF f = "apply" THEN Ok([p |-> x, condition |-> condition])
    ELSE Ok(x)

\* (self.sample)(condition, rng)
ApplySample(f, condition, rng) ==
    IF f = "apply" THEN Ok([condition |-> condition, rng |-> rng])
    ELSE rng

\* InstantConditionalDistribution::new
InstantNew(p, sample) == [p |-> p, sample |-> sample, condition |-> None]

\* InstantConditionalDistribution::p
InstantP(d, x) ==
    IF d.condition = None THEN Err("NotConditioned")
    ELSE ApplyP(d.p, x, d.condition.val)

\* InstantConditionalDistribution::sample
InstantSample(d, rng) ==
    IF d.condition = None THEN Err("NotConditioned")
    ELSE ApplySample(d.sample, d.condition.val, rng)

\* with_condition keeping a condition the object already has
InstantWithConditionOnce(d, condition) ==
    IF d.condition = None THEN [d EXCEPT !.condition = Some(condition)] ELSE d

\* InstantConditionalDistribution::with_condition
InstantWithCondition(d, condition) == [d EXCEPT !.condition = Some(condition)]

(***************************************************************************)
(* GibbsSampler: the distributions and iter, and while sample runs its      *)
(* locals params, the sweep counter and the coordinate i.  order lists the  *)
(* coordinates the running or last sample has updated.                      *)
(***************************************************************************)
NoGibbs == [kind |-> "none"]

Gibbs(distributions, iter, params, sweep, i, order) ==
    [kind |-> "gibbs", distributions |-> distributions, iter |-> iter,
     params |-> params, sweep |-> sweep, i |-> i, order |-> order]

\* the default of iter
DefaultIter == 32

\* GibbsSampler::new
GibbsNew(distributions) == Gibbs(distributions, DefaultIter, <<>>, 0, 0, <<>>)

\* GibbsSampler::with_iter
GibbsWithIter(g, iter) == [g EXCEPT !.iter = iter]

\* params[a..]
SliceFrom(params, a) ==
    IF a > Len(params) THEN Panic("range start index out of range")
    ELSE Ok(SubSeq(params, a + 1, Len(params)))

\* params[..b]
SliceTo(params, b) ==
    IF b > Len(params) THEN Panic("range end index out of range")
    ELSE Ok(SubSeq(params, 1, b))

\* [&params[..i], &params[i + 1..]].concat()
SliceAround(params, i) ==
    IF SliceTo(params, i).tag = "Panic" THEN SliceTo(params, i)
    ELSE IF SliceFrom(params, i + 1).tag = "Panic" THEN SliceFrom(params, i + 1)
    ELSE Ok(SliceTo(params, i).val \o SliceFrom(params, i + 1).val)

\* the condition sample builds for coordinate i, always the leading entries
GibbsConditionLeading(params, n, i) == SliceTo(params, n - 1)

\* the condition sample builds for coordinate i of n
GibbsCondition(params, n, i) ==
    IF i = 0 THEN SliceFrom(params, 1)
    ELSE IF i = n - 1 THEN SliceTo(params, n - 1)
    ELSE SliceAround(params, i)

\* the position after coordinate i of n in sweep
GibbsAdvance(g, n) ==
    IF g.i + 1 = n THEN [g EXCEPT !.sweep = g.sweep + 1, !.i = 0]
    ELSE [g EXCEPT !.i = g.i + 1]

\* params[i] = drawn
GibbsAssign(g, n, drawn) ==
    IF g.i >= Len(g.params) THEN [res |-> Panic("index out of bounds"), obj |-> g]
    ELSE [res |-> Ok("continue"),
          obj |-> GibbsAdvance([g EXCEPT !.params[g.i + 1] = drawn.val,
                                         !.order = Append(g.order, g.i)], n)]

\* distributions[i].with_condition(condition)?.sample(rng)?, then params[i] = ..
GibbsDraw(g, n, condition, rng) ==
    IF InstantSample(InstantWithCondition(g.distributions[g.i + 1], condition), rng).tag = "Err"
    THEN [res |-> InstantSample(InstantWithCondition(g.distributions[g.i + 1], condition), rng),
          obj |-> [g EXCEPT !.distributions[g.i + 1] = InstantWithCondition(@, condition)]]
    ELSE GibbsAssign([g EXCEPT !.distributions[g.i + 1] = InstantWithCondition(@, condition)], n,
                     InstantSample(InstantWithCondition(g.distributions[g.i + 1], condition), rng))

\* one pass of the inner loop of sample: coordinate g.i of sweep g.sweep
GibbsUpdate(g, rng) ==
    IF GibbsCondition(g.params, Len(g.distributions), g.i).tag = "Panic"
    THEN [res |-> GibbsCondition(g.params, Len(g.distributions), g.i), obj |-> g]
    ELSE GibbsDraw(g, Len(g.distributions),
                   GibbsCondition(g.params, Len(g.distributions), g.i).val, rng)

(***************************************************************************)
(* EllipticalSliceSampler::sample: the angle theta and the bracket          *)
(* [start, end) the next angle is drawn from.  Angles are counted in        *)
(* AngleSteps-ths of a full turn, so 2 pi is AngleSteps.                    *)
(***************************************************************************)
NoSlice == [kind |-> "none"]

TwoPi == AngleSteps

Slice(theta, start, end, rejections) ==
    [kind |-> "slice", theta |-> theta, start |-> start, end |-> end,
     rejections |-> rejections]

\* the values rng.gen_range(start..end) can give; none when the range is empty
GenRange(start, end) == {x \in start..(end - 1) : start < end}

\* sample up to the loop, with the first angle theta
SliceStart(theta) == Slice(theta, theta - TwoPi, theta, 0)

\* the bracket after a rejection
SliceShrink(e) ==
    IF 0 < e.theta THEN [e EXCEPT !.end = 0, !.rejections = e.rejections + 1]
    ELSE [e EXCEPT !.start = 0, !.rejections = e.rejections + 1]

(***************************************************************************)
(* Operations as actions.                                                  *)
(***************************************************************************)
TestVectors(n) ==
    {Vec([i \in 1..n |-> Flt(i)]), Vec([i \in 1..n |-> IF i = 1 THEN Flt(1) ELSE Flt(0)])}

\* (K_XX + sigma^2 I) v for the base parameters of engine e
SigmaTimes(base, v) == MatVecMul(ExactSigma(base, Len(base.x)), v)

\* the vector 1, 2, .., n
Ramp(n) == Vec([i \in 1..n |-> Flt(i)])

\* the n x 2 matrix with the columns (1, 2, .., n) and (2, 0, .., 0)
TwoColumns(n) ==
    [rows |-> n, cols |-> 2,
     col |-> <<Ramp(n), Vec([i \in 1..n |-> IF i = 1 THEN Flt(2) ELSE Flt(0)])>>]

\* the matrices apply_inverse is queried with: n x 1, Sigma times a vector, 1 x n, n x 2
QueryMatrices(e) ==
    {ColMat(v) : v \in TestVectors(Len(Mu(e)))}
        \cup {ColMat(SigmaTimes(e.base, Ramp(Len(Mu(e))))), RowMat(Ramp(Len(Mu(e)))),
              TwoColumns(Len(Mu(e)))}

\* the arithmetic of the model represents every value of the result r of op
Modelled(op, r) ==
    IF r.tag # "Ok" THEN TRUE
    ELSE IF op = "sigma_inv_mul" THEN MatInRange(r.val)
    ELSE IF op \in {"p_kernel", "fk"} THEN r.val.quad # OutOfRange
    ELSE IF op \in {"sample", "student_t_sample", "ln_diff_condition"} THEN VecInRange(r.val)
    ELSE TRUE

Init ==
    /\ eng = NoEngine
    /\ eng0 = NoEngine
    /\ call = [op |-> "none", arg |-> <<>>]
    /\ ret = [tag |-> "None"]
    /\ steps = <<>>
    /\ phase = "idle"
    /\ switch = NoSwitch
    /\ switch0 = NoSwitch
    /\ carried = {}
    /\ dist = NoDist
    /\ given = None
    /\ gibbs = NoGibbs
    /\ ess = NoSlice

\* the state after a constructor call op on arg that ended as r
Constructed(op, arg, r) ==
    /\ r.modelled
    /\ call' = [op |-> op, arg |-> arg]
    /\ ret' = IF r.res.tag = "Ok" THEN Ok(op) ELSE r.res
    /\ steps' = r.steps
    /\ eng' = IF r.res.tag = "Ok" THEN r.res.val ELSE NoEngine
    /\ eng0' = eng'
    /\ phase' = IF r.res.tag = "Ok" THEN "built"
                ELSE IF r.res.tag = "Err" THEN "failed" ELSE "aborted"
    /\ UNCHANGED <<switchVars, mcmcVars>>

\* BaseEllipticalProcessParams::exact(y)
NewExact ==
    /\ phase = "idle"
    /\ \E n \in 0..MaxN, nx \in 0..MaxN, theta \in Thetas, sigma \in Sigmas :
         \E y \in YLists(n), lib \in LibOutcomes :
            Constructed("exact",
                        [base |-> BaseParams(theta, Inputs(nx, 1, 1), Flt(sigma)), y |-> y,
                         lib |-> lib],
                        ExactNew(BaseParams(theta, Inputs(nx, 1, 1), Flt(sigma)), y, lib))

\* BaseEllipticalProcessParams::kiss_love(y)
NewKiss ==
    /\ phase = "idle"
    /\ \E n \in 0..MaxN, nx \in 0..MaxN, theta \in Thetas, sigma \in Sigmas :
         \E y \in YLists(n), p \in 0..MaxP, d \in 0..MaxD, eig \in EigenKinds :
            \E ext \in LanczosOutcomes(n, GridSize(n, d)) :
               Constructed("kiss_love",
                           [base |-> BaseParams(theta, Inputs(nx, p, d), Flt(sigma)), y |-> y,
                            ext |-> ext, eig |-> eig],
                           KissNew(BaseParams(theta, Inputs(nx, p, d), Flt(sigma)),
                                   y, ext, eig))

\* the state after operation op on arg of the constructed engine returned r
Returned(op, arg, r) ==
    /\ Modelled(op, r)
    /\ call' = [op |-> op, arg |-> arg]
    /\ ret' = r
    /\ phase' = IF r.tag = "Panic" THEN "aborted" ELSE phase
    /\ UNCHANGED <<eng, eng0, steps, switchVars, mcmcVars>>

DoMu == phase = "built" /\ Returned("mu", <<>>, Ok(Mu(eng)))

DoSigmaInvMul ==
    /\ phase = "built"
    /\ \E v \in QueryMatrices(eng) :
          \E lib \in (IF eng.kind = "kiss" /\ v.rows = Len(Mu(eng)) THEN {"ok"} ELSE LibOutcomes),
             sched \in Schedules(IF eng.kind = "kiss" THEN v.cols ELSE 0),
             failing \in 0..(IF eng.kind = "kiss" /\ v.rows = Len(Mu(eng)) THEN v.cols ELSE 0) :
             Returned("sigma_inv_mul",
                      [v |-> v, lib |-> lib, sched |-> sched, failing |-> failing],
                      IF eng.kind = "exact" THEN ExactSigmaInvMul(eng, v, lib)
                      ELSE KissSigmaInvMulPar(eng, v, lib, sched, failing))

DoSigmaDetSqrt == phase = "built" /\ Returned("sigma_det_sqrt", <<>>, Ok(SigmaDetSqrt(eng)))

DoLsigmaCols == phase = "built" /\ Returned("lsigma_cols", <<>>, Ok(LsigmaCols(eng)))

\* sample computed in place: the draw overwrites the stored mean
DoSampleInPlace ==
    /\ phase = "built"
    /\ \E z \in TestVectors(LsigmaCols(eng)) :
          /\ Sample(eng, z).tag = "Ok"
          /\ call' = [op |-> "sample", arg |-> [z |-> z]]
          /\ ret' = Sample(eng, z)
          /\ eng' = [eng EXCEPT !.mu = Sample(eng, z).val]
          /\ UNCHANGED <<eng0, steps, phase, switchVars, mcmcVars>>

DoSample ==
    /\ phase = "built"
    /\ \E z \in TestVectors(LsigmaCols(eng)) : Returned("sample", [z |-> z], Sample(eng, z))

DoMahalanobisSquared ==
    phase = "built" /\ Returned("mahalanobis_squared", <<>>, Ok(MahalanobisSquared(eng)))

DoPKernel ==
    /\ phase = "built"
    /\ \E lib \in LibOutcomes :
          Returned("p_kernel", [x |-> Ramp(Len(Mu(eng))), lib |-> lib],
                   PKernel(eng, Ramp(Len(Mu(eng))), lib))

DoLnDiffCondition ==
    /\ phase = "built"
    /\ \E lib \in LibOutcomes :
          Returned("ln_diff_condition", [x |-> Ramp(Len(Mu(eng))), lib |-> lib],
                   LnDiffCondition(eng, Ramp(Len(Mu(eng))), lib))

DoFk ==
    /\ phase = "built"
    /\ \E nu \in Nus, lib \in LibOutcomes :
          Returned("fk", [nu |-> nu, x |-> Ramp(Len(Mu(eng))), lib |-> lib],
                   Fk(eng, nu, Ramp(Len(Mu(eng))), lib))

DoStudentTSample ==
    /\ phase = "built"
    /\ \E z \in TestVectors(LsigmaCols(eng)), nu \in Nus :
          Returned("student_t_sample", [nu |-> nu, z |-> z], StudentTSample(eng, nu, z))

Next ==
    \/ NewExact
    \/ NewKiss
    \/ DoMu
    \/ DoSigmaInvMul
    \/ DoSigmaDetSqrt
    \/ DoLsigmaCols
    \/ DoSample
    \/ DoMahalanobisSquared
    \/ DoPKernel
    \/ DoLnDiffCondition
    \/ DoFk
    \/ DoStudentTSample

Spec == Init /\ [][Next]_vars

(***************************************************************************)
(* The grid construction wx_u on its own, for larger input lists.          *)
(***************************************************************************)
\* KissLoveEllipticalProcessParams::wx_u(&base.x) for a non-empty x
DoWxU ==
    /\ phase = "idle"
    /\ \E n \in 1..MaxGridN, p \in 0..MaxP, d \in 0..MaxGridD :
          /\ call' = [op |-> "wx_u", arg |-> [x |-> Inputs(n, p, d)]]
          /\ ret' = WxU(Inputs(n, p, d))
          /\ UNCHANGED <<eng, eng0, steps, phase, switchVars, mcmcVars>>

NextGrid == DoWxU

SpecGrid == Init /\ [][NextGrid]_vars

(***************************************************************************)
(* ClusterSwitch operations as actions.                                    *)
(***************************************************************************)
\* the labels the elements of s carry
LabelsOf(s) == {s[j] : j \in 1..Len(s)}

\* the label vectors new is called with
LabelLists == UNION {[1..n -> Labels] : n \in 0..MaxItems}

\* the parameter maps new is called with for s: none, or "t1" for every label of s
ThetaMaps(s) == {<<>>, [k \in LabelsOf(s) |-> "t1"]}

\* the state after ClusterSwitch operation op on arg ended as r
SwitchReturned(op, arg, r) ==
    /\ call' = [op |-> op, arg |-> arg]
    /\ ret' = r.res
    /\ switch' = r.obj
    /\ switch0' = switch
    /\ carried' = carried \cup LabelsOf(r.obj.s)
    /\ phase' = IF r.res.tag = "Panic" THEN "aborted" ELSE phase
    /\ UNCHANGED <<eng, eng0, steps, mcmcVars>>

\* ClusterSwitch::new(s, theta)
NewSwitch ==
    /\ phase = "idle"
    /\ \E s \in LabelLists : \E theta \in ThetaMaps(s) :
          /\ call' = [op |-> "new", arg |-> [s |-> s, theta |-> theta]]
          /\ ret' = IF ClusterSwitchNew(s, theta).tag = "Ok" THEN Ok("new")
                    ELSE ClusterSwitchNew(s, theta)
          /\ switch' = IF ClusterSwitchNew(s, theta).tag = "Ok"
                       THEN ClusterSwitchNew(s, theta).val ELSE NoSwitch
          /\ switch0' = switch
          /\ carried' = IF ClusterSwitchNew(s, theta).tag = "Ok" THEN LabelsOf(s) ELSE {}
          /\ phase' = IF ClusterSwitchNew(s, theta).tag = "Ok" THEN "switching" ELSE "failed"
          /\ UNCHANGED <<eng, eng0, steps, mcmcVars>>

\* a new label can be given while max_k is below MaxLabel, or wraps at u32::MAX
CanGrow(c, si) == si # 0 \/ c.max_k = U32Max \/ (0 <= c.max_k /\ c.max_k < MaxLabel)

\* set_s(i, si)
DoSetS ==
    /\ phase = "switching"
    /\ \E i \in 0..Len(switch.s), si \in Labels, checks \in BOOLEAN :
          /\ CanGrow(switch, si)
          /\ SwitchReturned("set_s", [i |-> i, si |-> si, checks |-> checks],
                            SetS(switch, i, si, checks))

\* set_s_with_theta(i, si, theta)
DoSetSWithTheta ==
    /\ phase = "switching"
    /\ \E i \in 0..Len(switch.s), si \in Labels, theta \in ClusterParams, checks \in BOOLEAN :
          /\ CanGrow(switch, si)
          /\ SwitchReturned("set_s_with_theta",
                            [i |-> i, si |-> si, theta |-> theta, checks |-> checks],
                            SetSWithTheta(switch, i, si, theta, checks))

\* n(k)
DoClusterN ==
    /\ phase = "switching"
    /\ \E k \in Labels :
          SwitchReturned("n", [k |-> k], [res |-> Ok(ClusterN(switch, k)), obj |-> switch])

\* clusters_len()
DoClustersLen ==
    /\ phase = "switching"
    /\ SwitchReturned("clusters_len", <<>>, [res |-> Ok(ClustersLen(switch)), obj |-> switch])

NextSwitch ==
    \/ NewSwitch
    \/ DoSetS
    \/ DoSetSWithTheta
    \/ DoClusterN
    \/ DoClustersLen

SpecSwitch == Init /\ [][NextSwitch]_vars

(***************************************************************************)
(* InstantConditionalDistribution operations as actions.                   *)
(***************************************************************************)
\* the values of T
SampleValues == 0..1

\* the conditions with_condition is called with: vectors of up to MaxCond values
Conditions == UNION {[1..n -> SampleValues] : n \in 0..MaxCond}

\* what a draw from the generator gives
Draws == {Ok(v) : v \in SampleValues} \cup {Err("Sample")}

\* InstantConditionalDistribution::new(p, sample)
NewInstant ==
    /\ phase = "idle"
    /\ \E p \in Closures, sample \in Closures :
          /\ call' = [op |-> "instant_new", arg |-> [p |-> p, sample |-> sample]]
          /\ dist' = InstantNew(p, sample)
    /\ ret' = Ok("new")
    /\ given' = None
    /\ phase' = "conditional"
    /\ UNCHANGED <<eng, eng0, steps, switchVars, gibbs, ess>>

\* with_condition(condition)
DoWithCondition ==
    /\ phase = "conditional"
    /\ \E condition \in Conditions :
          /\ call' = [op |-> "with_condition", arg |-> [condition |-> condition]]
          /\ dist' = InstantWithCondition(dist, condition)
          /\ given' = Some(condition)
    /\ ret' = Ok("self")
    /\ UNCHANGED <<eng, eng0, steps, phase, switchVars, gibbs, ess>>

\* p(x)
DoInstantP ==
    /\ phase = "conditional"
    /\ \E x \in SampleValues :
          /\ call' = [op |-> "p", arg |-> [x |-> x]]
          /\ ret' = InstantP(dist, x)
    /\ UNCHANGED <<eng, eng0, steps, phase, switchVars, mcmcVars>>

\* sample(rng)
DoInstantSample ==
    /\ phase = "conditional"
    /\ \E rng \in Draws :
          /\ call' = [op |-> "sample", arg |-> [rng |-> rng]]
          /\ ret' = InstantSample(dist, rng)
    /\ UNCHANGED <<eng, eng0, steps, phase, switchVars, mcmcVars>>

NextInstant ==
    \/ NewInstant
    \/ DoWithCondition
    \/ DoInstantP
    \/ DoInstantSample

SpecInstant == Init /\ [][NextInstant]_vars

(***************************************************************************)
(* GibbsSampler operations as actions; sample advances one coordinate at a  *)
(* time.                                                                    *)
(***************************************************************************)
\* the initial vectors sample is called with
Initials == UNION {[1..n -> SampleValues] : n \in 0..MaxDist}

\* GibbsSampler::new(distributions)
NewGibbs ==
    /\ phase = "idle"
    /\ \E n \in 0..MaxDist :
          /\ call' = [op |-> "gibbs_new", arg |-> [n |-> n]]
          /\ gibbs' = GibbsNew([j \in 1..n |-> InstantNew("apply", "draw")])
    /\ ret' = Ok("new")
    /\ phase' = "gibbs"
    /\ UNCHANGED <<eng, eng0, steps, switchVars, dist, given, ess>>

\* with_iter(iter)
DoWithIter ==
    /\ phase = "gibbs"
    /\ \E iter \in 0..MaxIter :
          /\ call' = [op |-> "with_iter", arg |-> [iter |-> iter]]
          /\ gibbs' = GibbsWithIter(gibbs, iter)
    /\ ret' = Ok("self")
    /\ UNCHANGED <<eng, eng0, steps, phase, switchVars, dist, given, ess>>

\* sample(rng, initial) is called
GibbsSampleCalled ==
    /\ phase = "gibbs"
    /\ \E initial \in Initials :
          /\ call' = [op |-> "gibbs_sample", arg |-> [initial |-> initial]]
          /\ gibbs' = [gibbs EXCEPT !.params = initial, !.sweep = 0, !.i = 0, !.order = <<>>]
    /\ ret' = None
    /\ phase' = "sampling"
    /\ UNCHANGED <<eng, eng0, steps, switchVars, dist, given, ess>>

\* sample updates the next coordinate, or ends on an error or panic
GibbsStep ==
    /\ phase = "sampling"
    /\ gibbs.sweep < gibbs.iter
    /\ Len(gibbs.distributions) > 0
    /\ \E rng \in Draws :
          /\ gibbs' = GibbsUpdate(gibbs, rng).obj
          /\ ret' = IF GibbsUpdate(gibbs, rng).res = Ok("continue") THEN None
                    ELSE GibbsUpdate(gibbs, rng).res
          /\ phase' = IF GibbsUpdate(gibbs, rng).res = Ok("continue") THEN "sampling"
                      ELSE IF GibbsUpdate(gibbs, rng).res.tag = "Panic" THEN "aborted"
                      ELSE "gibbs"
    /\ UNCHANGED <<eng, eng0, steps, call, switchVars, dist, given, ess>>

\* sample returns Ok(params) after the last sweep
GibbsReturn ==
    /\ phase = "sampling"
    /\ gibbs.sweep >= gibbs.iter \/ Len(gibbs.distributions) = 0
    /\ ret' = Ok(gibbs.params)
    /\ phase' = "gibbs"
    /\ UNCHANGED <<eng, eng0, steps, call, switchVars, mcmcVars>>

NextGibbs ==
    \/ NewGibbs
    \/ DoWithIter
    \/ GibbsSampleCalled
    \/ GibbsStep
    \/ GibbsReturn

SpecGibbs == Init /\ [][NextGibbs]_vars

(***************************************************************************)
(* EllipticalSliceSampler::sample as actions, one pass of its loop at a     *)
(* time.                                                                    *)
(***************************************************************************)
\* sample(rng) is called and reaches the loop, or returns the error of the
\* prior or of the likelihood
SliceSampleCalled ==
    /\ phase = "idle"
    /\ call' = [op |-> "slice_sample", arg |-> <<>>]
    /\ \E early \in {"ok", "err"} :
          IF early = "err"
          THEN ret' = Err("Sample") /\ ess' = NoSlice /\ phase' = "failed"
          ELSE /\ \E theta \in GenRange(0, TwoPi) : ess' = SliceStart(theta)
               /\ ret' = None
               /\ phase' = "slicing"
    /\ UNCHANGED <<eng, eng0, steps, switchVars, dist, given, gibbs>>

\* rho < fk(value, b): the loop breaks and sample returns Ok(b); or fk fails
SliceAccept ==
    /\ phase = "slicing"
    /\ \E fk \in {"ok", "err"} :
          /\ ret' = IF fk = "ok" THEN Ok("b") ELSE Err("Likelihood")
          /\ phase' = IF fk = "ok" THEN "sliced" ELSE "failed"
    /\ UNCHANGED <<eng, eng0, steps, call, switchVars, mcmcVars>>

\* the proposal is rejected: the bracket shrinks and the next angle is drawn
SliceReject ==
    /\ phase = "slicing"
    /\ IF GenRange(SliceShrink(ess).start, SliceShrink(ess).end) = {}
       THEN /\ ess' = SliceShrink(ess)
            /\ ret' = Panic("cannot sample empty range")
            /\ phase' = "aborted"
       ELSE /\ \E theta \in GenRange(SliceShrink(ess).start, SliceShrink(ess).end) :
                  ess' = [SliceShrink(ess) EXCEPT !.theta = theta]
            /\ ret' = None
            /\ phase' = "slicing"
    /\ UNCHANGED <<eng, eng0, steps, call, switchVars, dist, given, gibbs>>

NextSlice ==
    \/ SliceSampleCalled
    \/ SliceAccept
    \/ SliceReject

SpecSlice == Init /\ [][NextSlice]_vars

(***************************************************************************)
(* Properties.                                                             *)
(***************************************************************************)
\* C1: constructing either engine with an empty observation vector y returns
\* the Empty error as a value, whatever the length of X: no panic, no engine
C1_EmptyYReturnsEmpty ==
    (call.op \in {"exact", "kiss_love"} /\ Len(call.arg.y) = 0)
        => (ret = Err("Empty") /\ phase = "failed" /\ eng = NoEngine)

\* the structured constructor returned Empty for an empty y and a non-empty X
C1_Witness ==
    /\ call.op = "kiss_love"
    /\ Len(call.arg.y) = 0
    /\ Len(call.arg.base.x) > 0
    /\ ret = Err("Empty")

\* C2: constructing either engine with a non-empty y whose length differs from
\* the length of X returns DimensionMismatch and produces no engine
C2_LengthMismatchReturnsDimensionMismatch ==
    (/\ call.op \in {"exact", "kiss_love"}
     /\ Len(call.arg.y) # 0
     /\ Len(call.arg.y) # Len(call.arg.base.x))
        => (ret = Err("DimensionMismatch") /\ phase = "failed" /\ eng = NoEngine)

\* the exact constructor returned DimensionMismatch for two observations of one input
C2_Witness ==
    /\ call.op = "exact"
    /\ Len(call.arg.y) = 2
    /\ Len(call.arg.base.x) = 1
    /\ ret = Err("DimensionMismatch")

C5_CallersReturnTheError ==
    /\ (/\ call.op \in {"p_kernel", "fk"}
        /\ XMu(eng, call.arg.x).tag = "Ok"
        /\ SigmaInvMul(eng, ColMat(XMu(eng, call.arg.x).val), call.arg.lib).tag = "Err")
           => ret.tag = "Err"
    /\ (/\ call.op = "ln_diff_condition"
        /\ XMu(eng, call.arg.x).tag = "Ok"
        /\ SigmaInvMul(eng, RowMat(VSub(call.arg.x, XMu(eng, call.arg.x).val)),
                       call.arg.lib).tag = "Err")
           => ret.tag = "Err"

\* ln_diff_condition ended the process on the error of its first solve
C5_UnwrapAborted ==
    /\ call.op = "ln_diff_condition"
    /\ eng.kind = "exact"
    /\ SigmaInvMul(eng, RowMat(VSub(call.arg.x, XMu(eng, call.arg.x).val)),
                   call.arg.lib).tag = "Err"
    /\ ret.tag = "Panic"
    /\ phase = "aborted"

\* C6: in the exact engine sample(z) returns mu + L z, entry i being
\* mu[i] + sum_j L[i][j] * z[j], for every z of length n
C6_ExactDrawIsMuPlusLz ==
    (call.op = "sample" /\ eng.kind = "exact")
        => ret = Ok(Vec([i \in 1..Len(eng.mu) |->
                      FAdd(eng.mu[i],
                           FSum(Vec([j \in 1..Len(call.arg.z) |->
                                       FMul(At(eng.lsigma, i, j), call.arg.z[j])]),
                                Len(call.arg.z)))]))

\* a draw of an exact engine with a non-zero mean and a non-diagonal factor
C6_Witness ==
    /\ call.op = "sample"
    /\ eng.kind = "exact"
    /\ Len(eng.mu) = 3
    /\ eng.mu[1] # Flt(0)
    /\ At(eng.lsigma, 3, 1) # Flt(0)
    /\ call.arg.z = Ramp(3)
    /\ ret.tag = "Ok"

\* C7: for both engines the Mahalanobis distance stored at construction equals
\* (y - mean(y))^T * sigma_inv_mul(y - mean(y)) recomputed on the constructed object
C7_MahalanobisIsRecomputable ==
    (call.op \in {"exact", "kiss_love"} /\ phase = "built")
        => /\ SigmaInvMul(eng, ColMat(YEy(call.arg.y, Ey(call.arg.y))), "ok").tag = "Ok"
           /\ MahalanobisSquared(eng)
                = At(MatMul(Transpose(ColMat(YEy(call.arg.y, Ey(call.arg.y)))),
                            SigmaInvMul(eng, ColMat(YEy(call.arg.y, Ey(call.arg.y))),
                                        "ok").val), 1, 1)

\* a structured engine whose stored distance is finite and not zero
C7_Witness ==
    /\ call.op = "kiss_love"
    /\ phase = "built"
    /\ IsFinite(MahalanobisSquared(eng))
    /\ MahalanobisSquared(eng) # Flt(0)

\* C8: round trip of the exact engine: sigma_inv_mul(Sigma * v) returns v for
\* Sigma = K_XX + sigma^2 I positive definite and v of length n
C8_ExactRoundTrip ==
    (call.op = "sigma_inv_mul" /\ eng.kind = "exact" /\ ret.tag = "Ok")
        => \A w \in TestVectors(Len(eng.mu)) \cup {Ramp(Len(eng.mu))} :
              call.arg.v = ColMat(SigmaTimes(eng.base, w)) => ret.val = ColMat(w)

\* the round trip on three inputs with noise and a Sigma that is not diagonal
C8_Witness ==
    /\ call.op = "sigma_inv_mul"
    /\ eng.kind = "exact"
    /\ Len(eng.mu) = 3
    /\ eng.base.sigma = Flt(1)
    /\ At(ExactSigma(eng.base, 3), 3, 1) # Flt(0)
    /\ call.arg.v = ColMat(SigmaTimes(eng.base, Ramp(3)))
    /\ call.arg.v # ColMat(Ramp(3))
    /\ ret = Ok(ColMat(Ramp(3)))

\* C9: the noise scale sigma enters the operator of the structured engine: the
\* engine built from the same kernel, theta, X and y with another sigma does not
\* have the same operator, the same Mahalanobis distance and the same solves
C9_SigmaEntersTheOperator ==
    (call.op = "kiss_love" /\ phase = "built")
        => \A s \in Sigmas :
              (/\ Flt(s) # call.arg.base.sigma
               /\ KissNew(BaseParams(call.arg.base.theta, call.arg.base.x, Flt(s)),
                          call.arg.y, "ok", "asc").res.tag = "Ok")
                 => ~(/\ OperatorMatrix(
                            KissNew(BaseParams(call.arg.base.theta, call.arg.base.x, Flt(s)),
                                    call.arg.y, "ok", "asc").res.val.wx,
                            KissNew(BaseParams(call.arg.base.theta, call.arg.base.x, Flt(s)),
                                    call.arg.y, "ok", "asc").res.val.kuu,
                            Len(call.arg.y))
                          = OperatorMatrix(eng.wx, eng.kuu, Len(eng.mu))
                      /\ MahalanobisSquared(
                            KissNew(BaseParams(call.arg.base.theta, call.arg.base.x, Flt(s)),
                                    call.arg.y, "ok", "asc").res.val)
                          = MahalanobisSquared(eng))

\* two structured engines that differ only in sigma and agree on a non-zero distance
C9_SigmaIgnored ==
    /\ call.op = "kiss_love"
    /\ phase = "built"
    /\ call.arg.base.sigma = Flt(1)
    /\ MahalanobisSquared(eng) # Flt(0)
    /\ KissNew(BaseParams(call.arg.base.theta, call.arg.base.x, Flt(0)),
               call.arg.y, "ok", "asc").res.tag = "Ok"
    /\ MahalanobisSquared(
          KissNew(BaseParams(call.arg.base.theta, call.arg.base.x, Flt(0)),
                  call.arg.y, "ok", "asc").res.val) = MahalanobisSquared(eng)

\* C10: both engines are immutable after construction: after any sequence of
\* calls every field equals its value at construction, and sigma_det_sqrt and
\* mahalanobis_squared return the same value on every call
C10_ImmutableAfterConstruction ==
    /\ eng = eng0
    /\ call.op = "sigma_det_sqrt" => ret = Ok(SigmaDetSqrt(eng0))
    /\ call.op = "mahalanobis_squared" => ret = Ok(MahalanobisSquared(eng0))

\* a structured engine after a draw
C10_Witness ==
    /\ call.op = "sample"
    /\ eng.kind = "kiss"
    /\ ret.tag = "Ok"
    /\ eng = eng0

\* C11: after a successful construction of either engine from y of length n,
\* mean() returns a vector of length n whose every entry is the arithmetic mean
\* of y, and mean() never fails
C11_MeanIsConstantMeanOfY ==
    /\ (call.op \in {"exact", "kiss_love"} /\ phase = "built")
          => /\ Len(Mu(eng)) = Len(call.arg.y)
             /\ \A i \in 1..Len(call.arg.y) :
                   Mu(eng)[i] = FDiv(FSum(call.arg.y, Len(call.arg.y)), Flt(Len(call.arg.y)))
    /\ call.op = "mu"
          => /\ ret = Ok(Mu(eng0))
             /\ Len(ret.val) = Len(eng0.base.x)
             /\ \A i \in 1..Len(ret.val) : ret.val[i] = ret.val[1]

\* mean() returned three equal non-zero entries on an exact engine
C11_Witness ==
    /\ call.op = "mu"
    /\ eng.kind = "exact"
    /\ ret.tag = "Ok"
    /\ Len(ret.val) = 3
    /\ ret.val[3] = Norm(4, 3)

C14_IterativeSolvesAreCapped ==
    /\ call.op = "kiss_love"
          => \A i \in 1..Len(steps) :
                /\ steps[i].cap \in 0..100
                /\ steps[i].op = "posv_cgm" => steps[i].cap = 100
                /\ steps[i].op = "sytrd_k"
                      => steps[i].cap
                           = (IF \E j \in 1..(i - 1) : steps[j].op = "sytrd_k" THEN 100
                              ELSE IF Len(call.arg.y) < 100 THEN Len(call.arg.y) ELSE 100)
    /\ (call.op = "sigma_inv_mul" /\ eng.kind = "kiss" /\ ret.tag = "Ok")
          => \A i \in 1..call.arg.v.cols :
                ret.val.col[i]
                  = PosvCgm(OperatorMatrix(eng.wx, eng.kuu, Len(eng.mu)), call.arg.v.col[i], 100)

\* a construction from three observations that started the solve with cap 100,
\* the first tridiagonalization with rank 3 and a second one with rank 100
C14_Witness ==
    /\ call.op = "kiss_love"
    /\ Len(call.arg.y) = 3
    /\ \E i \in 1..Len(steps) : \E j \in 1..Len(steps) : \E k \in 1..Len(steps) :
          /\ i < j /\ j < k
          /\ steps[i] = Step("posv_cgm", 3, 100)
          /\ steps[j] = Step("sytrd_k", 3, 3)
          /\ steps[k].op = "sytrd_k"
          /\ steps[k].cap = 100

\* C15: structured apply_inverse(V) solves the columns of V in parallel and,
\* for every order in which the workers finish, returns a matrix with V.rows()
\* rows and V.cols() columns whose column i is the solve of column i of V; if
\* the solve of any column fails the call returns an error and no matrix
C15_ColumnsSolvedIndependently ==
    (/\ call.op = "sigma_inv_mul"
     /\ eng.kind = "kiss"
     /\ call.arg.v.rows = Len(eng.mu))
        => IF call.arg.failing \in 1..call.arg.v.cols
           THEN ret.tag = "Err"
           ELSE /\ ret.tag = "Ok"
                /\ ret.val.rows = call.arg.v.rows
                /\ ret.val.cols = call.arg.v.cols
                /\ Len(ret.val.col) = call.arg.v.cols
                /\ \A i \in 1..call.arg.v.cols :
                      ret.val.col[i]
                        = PosvCgm(OperatorMatrix(eng.wx, eng.kuu, Len(eng.mu)),
                                  call.arg.v.col[i], K)

\* two columns with different solves, the worker of the second finishing first
C15_Witness ==
    /\ call.op = "sigma_inv_mul"
    /\ eng.kind = "kiss"
    /\ call.arg.v.cols = 2
    /\ call.arg.sched = <<2, 1>>
    /\ call.arg.failing = 0
    /\ ret.tag = "Ok"
    /\ ret.val.col[1] # ret.val.col[2]

\* C16: the inducing grid has, on each of the d = data_len axes, the same
\* number of points max(floor(n / 2^d), 2), at least 2 for every n >= 1 and
\* d >= 1, and its size m is that number to the power d
C16_GridPointsPerAxis ==
    (/\ call.op = "wx_u"
     /\ call.arg.x[1].parts_len >= 1
     /\ call.arg.x[1].data_len >= 1)
        => LET n == Len(call.arg.x)
               d == call.arg.x[1].data_len
               count == IF n \div (2 ^ d) > 2 THEN n \div (2 ^ d) ELSE 2
           IN  /\ ret.tag = "Ok"
               /\ Len(ret.val.u.points) = d
               /\ \A a \in 1..d : ret.val.u.points[a] = count /\ ret.val.u.points[a] >= 2
               /\ \A k \in 1..Len(ret.val.wx) :
                     ret.val.wx[k].rows = count ^ d /\ ret.val.wx[k].cols = n

\* a grid of 3 points on each of 2 axes, 9 in all, for 12 inputs
C16_Witness ==
    /\ call.op = "wx_u"
    /\ Len(call.arg.x) = 12
    /\ call.arg.x[1].data_len = 2
    /\ ret.tag = "Ok"
    /\ ret.val.u.points = <<3, 3>>
    /\ ret.val.wx[1].rows = 9

\* C17 as stated: for every d >= 1 and every n >= 2^(d+1) the number of
\* inducing points m = floor(n / 2^d)^d does not exceed n
C17_GridSizeAtMostN ==
    (/\ call.op = "wx_u"
     /\ call.arg.x[1].parts_len >= 1
     /\ call.arg.x[1].data_len >= 1
     /\ Len(call.arg.x) >= 2 ^ (call.arg.x[1].data_len + 1))
        => /\ ret.tag = "Ok"
           /\ ret.val.wx[1].rows
                 = (Len(call.arg.x) \div (2 ^ call.arg.x[1].data_len)) ^ call.arg.x[1].data_len
           /\ ret.val.wx[1].rows <= Len(call.arg.x)

\* C17 amended: for every d >= 1 and every n >= 2^(d+1) the number of inducing
\* points is m = floor(n / 2^d)^d; m does not exceed n when d = 1 (for d >= 2
\* it can: d = 2, n = 20 gives m = 25)
C17_GridSizeAtMostNOnOneAxis ==
    (/\ call.op = "wx_u"
     /\ call.arg.x[1].parts_len >= 1
     /\ call.arg.x[1].data_len >= 1
     /\ Len(call.arg.x) >= 2 ^ (call.arg.x[1].data_len + 1))
        => /\ ret.tag = "Ok"
           /\ ret.val.wx[1].rows
                 = (Len(call.arg.x) \div (2 ^ call.arg.x[1].data_len)) ^ call.arg.x[1].data_len
           /\ call.arg.x[1].data_len = 1 => ret.val.wx[1].rows <= Len(call.arg.x)

\* five inputs of one feature: 2 grid points, fewer than inputs
C17_Witness ==
    /\ call.op = "wx_u"
    /\ Len(call.arg.x) = 5
    /\ call.arg.x[1].data_len = 1
    /\ ret.tag = "Ok"
    /\ ret.val.wx[1].rows = 2

\* C18: structured construction with a valid y fails with the Empty error when
\* the first input x[0] reports zero parts or zero feature dimension, before
\* any grid or interpolation weight is built
C18_EmptyInputFailsBeforeGrid ==
    (/\ call.op = "kiss_love"
     /\ Len(call.arg.y) >= 1
     /\ Len(call.arg.y) = Len(call.arg.base.x)
     /\ (call.arg.base.x[1].parts_len = 0 \/ call.arg.base.x[1].data_len = 0))
        => /\ ret = Err("Empty")
           /\ phase = "failed"
           /\ eng = NoEngine
           /\ \A i \in 1..Len(steps) :
                 steps[i].op \notin {"grid", "interpolation_weight", "kuu", "potrf"}

\* two observations of inputs with one part and no feature: Empty
C18_Witness ==
    /\ call.op = "kiss_love"
    /\ Len(call.arg.y) = 2
    /\ Len(call.arg.base.x) = 2
    /\ call.arg.base.x[1].parts_len = 1
    /\ call.arg.base.x[1].data_len = 0
    /\ ret = Err("Empty")

\* C19: in both engines the validation of y (non-empty, as long as X) is the
\* first step of construction: when it fails the constructor returns the error
\* before any kernel evaluation, grid construction, factorization or solve is
\* started, and no engine object is returned
C19_ValidationComesFirst ==
    (/\ call.op \in {"exact", "kiss_love"}
     /\ (Len(call.arg.y) = 0 \/ Len(call.arg.y) # Len(call.arg.base.x)))
        => /\ ret.tag = "Err"
           /\ ret.err \in {"Empty", "DimensionMismatch"}
           /\ steps = <<>>
           /\ eng = NoEngine
           /\ eng0 = NoEngine
           /\ phase = "failed"

\* the exact constructor refused two observations of three inputs having started nothing
C19_Witness ==
    /\ call.op = "exact"
    /\ Len(call.arg.y) = 2
    /\ Len(call.arg.base.x) = 3
    /\ ret.tag = "Err"
    /\ steps = <<>>
    /\ eng = NoEngine

\* C20: set_s_with_theta(i, si, t) returns a label k such that afterwards
\* s[i] = k and theta[k] = t; k is si when si # 0 and is the previous
\* max_k + 1, a label above the previous max_k, when si = 0; this holds after
\* any sequence of earlier set_s / set_s_with_theta calls
C20_SetSWithThetaReturnsLabel ==
    [][(/\ phase = "switching"
        /\ call'.op = "set_s_with_theta"
        /\ call'.arg.i < Len(switch.s))
          => /\ ret'.tag = "Ok"
             /\ switch'.s[call'.arg.i + 1] = ret'.val
             /\ ret'.val \in DOMAIN switch'.theta
             /\ switch'.theta[ret'.val] = call'.arg.theta
             /\ IF call'.arg.si # 0 THEN ret'.val = call'.arg.si
                ELSE ret'.val = switch.max_k + 1 /\ ULt(switch.max_k, ret'.val)]_vars

\* set_s_with_theta(i, 0, t) at max_k = u32::MAX wrapped and gave the label 0
C20_LabelWrapped ==
    /\ call.op = "set_s_with_theta"
    /\ call.arg.si = 0
    /\ call.arg.checks = FALSE
    /\ ret = Ok(0)
    /\ switch.max_k = 0
    /\ switch.s[call.arg.i + 1] = 0

\* C21: a set_s(i, si) that returns, with si # 0 naming a cluster that has a
\* parameter, leaves theta[si] present and unchanged, also when si is the
\* current s[i]; the only theta entry a set_s removes is that of the cluster
\* element i leaves, and only when that cluster ends up with no element
C21_SetSKeepsThetaOfTarget ==
    [][(/\ phase = "switching"
        /\ call'.op = "set_s"
        /\ ret'.tag = "Ok")
          => /\ (call'.arg.si # 0 /\ call'.arg.si \in DOMAIN switch.theta)
                   => /\ call'.arg.si \in DOMAIN switch'.theta
                      /\ switch'.theta[call'.arg.si] = switch.theta[call'.arg.si]
             /\ \A k \in DOMAIN switch.theta :
                   IF k \in DOMAIN switch'.theta THEN switch'.theta[k] = switch.theta[k]
                   ELSE /\ k = switch.s[call'.arg.i + 1]
                        /\ k \notin LabelsOf(switch'.s)]_vars

\* set_s(i, s[i]) on the only element of a cluster dropped the parameter of
\* the cluster the element is still in
C21_ParameterLost ==
    /\ call.op = "set_s"
    /\ ret = Ok(call.arg.si)
    /\ call.arg.si # 0
    /\ switch0.s[call.arg.i + 1] = call.arg.si
    /\ call.arg.si \in DOMAIN switch0.theta
    /\ switch.s[call.arg.i + 1] = call.arg.si
    /\ call.arg.si \notin DOMAIN switch.theta

\* C22: new(s, theta) fails with SMustBePositive exactly when some element of
\* s is 0; on success s is stored unchanged, max_k is the largest element of
\* s (0 when s is empty) and s_inv[k] is exactly the set of indices i with
\* s[i] = k
C22_NewRejectsZeroLabelsOnly ==
    call.op = "new" =>
        IF \E j \in 1..Len(call.arg.s) : call.arg.s[j] = 0
        THEN ret = Err("SMustBePositive") /\ switch = NoSwitch
        ELSE /\ ret.tag = "Ok"
             /\ switch.s = call.arg.s
             /\ switch.theta = call.arg.theta
             /\ IF call.arg.s = <<>> THEN switch.max_k = 0
                ELSE /\ switch.max_k \in LabelsOf(call.arg.s)
                     /\ \A k \in LabelsOf(call.arg.s) : ~ULt(switch.max_k, k)
             /\ DOMAIN switch.s_inv = LabelsOf(call.arg.s)
             /\ \A k \in DOMAIN switch.s_inv :
                   switch.s_inv[k] = {j \in 0..(Len(call.arg.s) - 1) : call.arg.s[j + 1] = k}

\* new succeeded on two elements, the second carrying u32::MAX
C22_Witness ==
    /\ call.op = "new"
    /\ call.arg.s = <<1, U32Max>>
    /\ ret.tag = "Ok"
    /\ switch.max_k = U32Max
    /\ switch.s_inv[1] = {0}

\* C23: after any sequence of set_s / set_s_with_theta calls that returned,
\* s_inv is exactly the inverse of s: its keys are the labels in s, s_inv[k]
\* is the set of i with s[i] = k and is never empty; n(k) is the number of
\* elements with label k (0 for an unused label), the n(k) sum to len(s), and
\* clusters_len() is the number of distinct labels in s
C23_SInvIsInverseOfS ==
    phase = "switching" =>
        LET idx(k) == {j \in 0..(Len(switch.s) - 1) : switch.s[j + 1] = k}
            RECURSIVE SumN(_)
            SumN(ks) == IF ks = {} THEN 0
                        ELSE LET k == CHOOSE x \in ks : TRUE
                             IN  ClusterN(switch, k) + SumN(ks \ {k})
        IN  /\ DOMAIN switch.s_inv = LabelsOf(switch.s)
            /\ \A k \in DOMAIN switch.s_inv :
                  switch.s_inv[k] = idx(k) /\ switch.s_inv[k] # {}
            /\ \A k \in Labels : ClusterN(switch, k) = Cardinality(idx(k))
            /\ SumN(Labels) = Len(switch.s)
            /\ ClustersLen(switch) = Cardinality(LabelsOf(switch.s))
            /\ call.op = "n" => ret = Ok(Cardinality(idx(call.arg.k)))
            /\ call.op = "clusters_len" => ret = Ok(Cardinality(LabelsOf(switch.s)))

\* set_s(0, 2) moved the only element of cluster 1 into cluster 2
C23_Witness ==
    /\ phase = "switching"
    /\ call.op = "set_s"
    /\ call.arg.i = 0
    /\ ret = Ok(2)
    /\ switch0.s = <<1, 2>>
    /\ switch.s = <<2, 2>>
    /\ switch.s_inv = [k \in {2} |-> {0, 1}]

\* C24: max_k is at least every label in s and never decreases, and
\* set_s(i, 0) with i in range always assigns a label that no element carries
\* and that no element has carried before
C24_NewLabelIsFresh ==
    [][/\ phase' = "switching"
          => \A k \in LabelsOf(switch'.s) : ~ULt(switch'.max_k, k)
       /\ (phase = "switching" /\ phase' \in {"switching", "aborted"})
          => /\ ~ULt(switch'.max_k, switch.max_k)
             /\ (/\ call'.op \in {"set_s", "set_s_with_theta"}
                 /\ call'.arg.si = 0
                 /\ call'.arg.i < Len(switch.s))
                   => /\ ret'.tag = "Ok"
                      /\ switch'.s[call'.arg.i + 1] = ret'.val
                      /\ ret'.val \notin LabelsOf(switch.s)
                      /\ ret'.val \notin carried]_vars

\* after max_k wrapped to 0, set_s(0, 0) gave element 0 the label 1 that
\* element 1 carries: the new cluster merged with an existing one
C24_NewClusterMerged ==
    /\ call.op = "set_s"
    /\ call.arg.si = 0
    /\ call.arg.i = 0
    /\ ret = Ok(1)
    /\ switch0.s = <<0, 1>>
    /\ switch.s = <<1, 1>>
    /\ switch.s_inv[1] = {0, 1}
    /\ U32Max \in carried

\* C26: p and sample return the NotConditioned error exactly when
\* with_condition has never been called on the object; after one or more
\* with_condition calls they evaluate the stored closures with the most
\* recently given condition; p and sample never change the stored condition
C26_ConditionIsTheLastGiven ==
    [][(phase = "conditional" /\ call'.op \in {"p", "sample"})
          => /\ dist' = dist
             /\ (ret' = Err("NotConditioned")) <=> (given = None)
             /\ given # None
                   => ret' = IF call'.op = "p"
                             THEN ApplyP(dist.p, call'.arg.x, given.val)
                             ELSE ApplySample(dist.sample, given.val, call'.arg.rng)]_vars

\* sample ran the stored closure on the condition given last
C26_Witness ==
    /\ phase = "conditional"
    /\ call.op = "sample"
    /\ dist.sample = "apply"
    /\ given = Some(<<1>>)
    /\ ret = Ok([condition |-> <<1>>, rng |-> Ok(0)])

\* C25: a new GibbsSampler has iter = 32 until with_iter changes it; sample
\* with initial.len() = distributions.len() = n >= 1 never aborts, updates the
\* coordinates 0, 1, .., n - 1 in that order in every sweep, gives
\* distribution i the current parameter vector without entry i (so with the
\* values updated earlier in the sweep) and changes entry i only; it returns
\* Ok only after exactly iter sweeps, with the parameter vector, which is the
\* initial vector when iter = 0
C25_SweepsUpdateInOrder ==
    [][/\ call'.op = "gibbs_new" => gibbs'.iter = 32
       /\ (/\ phase = "sampling"
           /\ Len(gibbs.distributions) >= 1
           /\ Len(call.arg.initial) = Len(gibbs.distributions))
             => LET n == Len(gibbs.distributions)
                    i == Len(gibbs.order) % n
                IN  /\ phase' # "aborted"
                    /\ gibbs'.order # gibbs.order
                          => /\ gibbs'.order = Append(gibbs.order, i)
                             /\ Len(gibbs.order) < gibbs.iter * n
                             /\ gibbs'.distributions[i + 1].condition
                                   = Some([j \in 1..(n - 1) |->
                                             IF j <= i THEN gibbs.params[j]
                                             ELSE gibbs.params[j + 1]])
                             /\ Len(gibbs'.params) = n
                             /\ \A j \in 1..n : j # i + 1 => gibbs'.params[j] = gibbs.params[j]
                    /\ (phase' = "gibbs" /\ ret'.tag = "Ok")
                          => /\ Len(gibbs.order) = gibbs.iter * n
                             /\ ret'.val = gibbs.params
                             /\ gibbs.iter = 0 => ret'.val = call.arg.initial]_vars

\* in the first sweep over three coordinates, distribution 1 was given the
\* value coordinate 0 had just been updated to
C25_Witness ==
    /\ phase = "sampling"
    /\ call.arg.initial = <<0, 0, 0>>
    /\ Len(gibbs.distributions) = 3
    /\ gibbs.order = <<0, 1>>
    /\ gibbs.params[1] = 1
    /\ gibbs.distributions[2].condition = Some(<<1, 0>>)

\* C27: sample keeps a bracket with start <= 0 <= end that shrinks on each
\* rejection, and every draw gen_range(start..end) is made with start < end:
\* after any number of consecutive rejections the range is not empty and the
\* loop does not abort
C27_BracketNeverEmpty ==
    [][/\ phase' = "slicing" => (ess'.start <= 0 /\ 0 <= ess'.end)
       /\ phase = "slicing" /\ ess'.rejections = ess.rejections + 1
             => /\ ess.start <= ess'.start
                /\ ess'.end <= ess.end
                /\ ess'.start < ess'.end
                /\ phase' # "aborted"]_vars

\* the second rejection in a row left the range 0..0 and the draw aborted
C27_EmptyRange ==
    /\ call.op = "slice_sample"
    /\ phase = "aborted"
    /\ ret = Panic("cannot sample empty range")
    /\ ess.rejections = 2
    /\ ess.start = 0
    /\ ess.end = 0

\* C28: in both constructors the emptiness check comes before the length
\* check and both come before everything else: an empty y gives Empty also
\* when X is not empty, a non-empty y of another length than X gives
\* DimensionMismatch, nothing is computed in either case, and whatever runs
\* after the checks, the access to x[0] of wx_u included, runs with X non-empty
C28_EmptinessBeforeLength ==
    call.op \in {"exact", "kiss_love"} =>
        /\ Len(call.arg.y) = 0 => (ret = Err("Empty") /\ steps = <<>>)
        /\ (Len(call.arg.y) # 0 /\ Len(call.arg.y) # Len(call.arg.base.x))
              => (ret = Err("DimensionMismatch") /\ steps = <<>>)
        /\ steps # <<>> => Len(call.arg.base.x) = Len(call.arg.y) /\ Len(call.arg.base.x) > 0
        /\ ret # WxU(<<>>)

\* the structured constructor, given no observation for two inputs, stopped
\* at the emptiness check
C28_Witness ==
    /\ call.op = "kiss_love"
    /\ Len(call.arg.y) = 0
    /\ Len(call.arg.base.x) = 2
    /\ ret = Err("Empty")
    /\ steps = <<>>
    /\ phase = "failed"

\* C29: the rank cap given to each bounded-rank tridiagonalization of the
\* structured constructor never exceeds the dimension of the operator it is
\* applied to: min(n, 100) <= n for the n-dimensional operator A, and at most m
\* for the m-dimensional residual operator, for every n and grid size m
C29_RankCapWithinDimension ==
    call.op = "kiss_love" =>
        \A i \in 1..Len(steps) :
            steps[i].op = "sytrd_k" => steps[i].cap <= steps[i].dim

\* a construction from three observations on a grid of two points whose
\* second tridiagonalization was given rank 100 for an operator of dimension 2
C29_RankAboveDimension ==
    /\ call.op = "kiss_love"
    /\ Len(call.arg.y) = 3
    /\ \E i \in 1..Len(steps) : \E j \in 1..Len(steps) :
          /\ i < j
          /\ steps[i] = Step("sytrd_k", 3, 3)
          /\ steps[j] = Step("sytrd_k", 2, 100)

====
